---- MODULE Spec2Model ----
(***************************************************************************)
(* State-machine model of the navigation and obstacle-avoidance engine of  *)
(* the AVP accessibility module (NakedAVP/src/accessibility.cpp).          *)
(*                                                                         *)
(* The engine is single threaded and driven once per host frame, so every  *)
(* handler (AutoNav_Update, Obstruction_Update, PlayerState_Update, the    *)
(* hotkey triggers) is one atomic action.  Values produced by the host     *)
(* (clock, player position, ray casts, entity enumeration, player status)  *)
(* are inputs drawn from small sets.                                       *)
(***************************************************************************)
EXTENDS Integers, Sequences, FiniteSets, TLC

(***************************************************************************)
(* Program constants                                                       *)
(***************************************************************************)
ANNOUNCE_PRIORITY_CRITICAL == 0
ANNOUNCE_PRIORITY_HIGH == 1
ANNOUNCE_PRIORITY_NORMAL == 2
ANNOUNCE_PRIORITY_LOW == 3

COOLDOWN_AFTER_CRITICAL_MS == 600
COOLDOWN_AFTER_HIGH_MS == 400
COOLDOWN_BETWEEN_SAME_MS == 200

Priorities == ANNOUNCE_PRIORITY_CRITICAL .. ANNOUNCE_PRIORITY_LOW

(***************************************************************************)
(* Bounds of the model                                                     *)
(***************************************************************************)
\* Last value of the millisecond clock in the arbiter specifications.
MaxArbTime == 1400

\* Steps by which the host clock advances between two handler calls.
ArbTimeSteps == {100, 200}

VARIABLES
    now,                              \* GetTickCount()
    g_LastCriticalAnnouncementTime,
    g_LastHighAnnouncementTime,
    g_LastNormalAnnouncementTime,
    everFired,                        \* history: tiers stamped by RecordTime so far
    g_LastHealth,
    g_HealthWarningGiven,
    g_LastWeaponSlot,
    g_LastCloakOn,
    g_LastVisionMode,
    g_LastFieldChargePercent,
    playerType,                       \* AvP.PlayerType
    AccessibilitySettings,
    g_ObstructionState,
    obstructionStatics,               \* static locals of Obstruction_Update
    obsGhost,                         \* history: what the obstruction checks saw and said
    emitted,                          \* history: announcements made by the last step
    suppressed,                       \* history: announcements the arbiter refused in the last step
    AutoNavState,
    navStatics,                       \* g_NavToneFrameCounter and the static locals of AutoNav_Update
    playerStatus,                     \* the player's PLAYER_STATUS and AngVelocity.EulerY
    world,                            \* the host: player position, entities, ray results
    navTrace,                         \* history: what the last navigation step did
    navGhost,                         \* history: counts kept over the run
    call,                             \* history: the last call of a function made on its
                                      \* own, with its arguments and its result
    toneState,                        \* the three tone sources and the flags guarding them
    backend                           \* g_AccessibilityInitialized, g_TolkInitialized, and
                                      \* whether the host lets Tolk load and the tone
                                      \* sources be created

arbVars == <<now, g_LastCriticalAnnouncementTime, g_LastHighAnnouncementTime,
             g_LastNormalAnnouncementTime, everFired>>
playerStateVars == <<g_LastHealth, g_HealthWarningGiven, g_LastWeaponSlot, g_LastCloakOn,
                     g_LastVisionMode, g_LastFieldChargePercent, playerType>>
obstructionVars == <<g_ObstructionState, obstructionStatics, obsGhost>>
navVars == <<AutoNavState, navStatics, playerStatus, world, navTrace, navGhost>>

(***************************************************************************)
(* Announcement priority / cooldown system                                 *)
(***************************************************************************)

\* The three cooldown timestamps (and the history of stamped tiers) as one value,
\* so that a handler can thread them through its statements.
AnnouncementClock ==
    [crit |-> g_LastCriticalAnnouncementTime,
     high |-> g_LastHighAnnouncementTime,
     norm |-> g_LastNormalAnnouncementTime,
     fired |-> everFired]

\* unsigned int subtraction currentTime - last.  The model clock is monotonic and
\* stays below 2^32, and no timestamp is ever ahead of it, so no borrow occurs.
UnsignedDiff(a, b) == a - b

\* Mutation: the NORMAL tier forgets the cooldown that follows a CRITICAL event.
Announcement_IsAllowed_NormalIgnoresCritical(priority, currentTime, c) ==
    IF priority = ANNOUNCE_PRIORITY_CRITICAL THEN TRUE
    ELSE IF priority = ANNOUNCE_PRIORITY_HIGH THEN
        ~(UnsignedDiff(currentTime, c.crit) < COOLDOWN_AFTER_CRITICAL_MS)
    ELSE IF priority = ANNOUNCE_PRIORITY_NORMAL THEN
        ~(UnsignedDiff(currentTime, c.high) < COOLDOWN_AFTER_HIGH_MS)
    ELSE IF priority = ANNOUNCE_PRIORITY_LOW THEN
        /\ ~(UnsignedDiff(currentTime, c.crit) < COOLDOWN_AFTER_CRITICAL_MS)
        /\ ~(UnsignedDiff(currentTime, c.high) < COOLDOWN_AFTER_HIGH_MS)
        /\ ~(UnsignedDiff(currentTime, c.norm) < COOLDOWN_BETWEEN_SAME_MS)
    ELSE TRUE

\* Mutation: HIGH is still refused when exactly the CRITICAL cooldown has passed.
Announcement_IsAllowed_HighRefusedAtLimit(priority, currentTime, c) ==
    IF priority = ANNOUNCE_PRIORITY_CRITICAL THEN TRUE
    ELSE IF priority = ANNOUNCE_PRIORITY_HIGH THEN
        ~(UnsignedDiff(currentTime, c.crit) <= COOLDOWN_AFTER_CRITICAL_MS)
    ELSE IF priority = ANNOUNCE_PRIORITY_NORMAL THEN
        /\ ~(UnsignedDiff(currentTime, c.crit) < COOLDOWN_AFTER_CRITICAL_MS)
        /\ ~(UnsignedDiff(currentTime, c.high) < COOLDOWN_AFTER_HIGH_MS)
    ELSE IF priority = ANNOUNCE_PRIORITY_LOW THEN
        /\ ~(UnsignedDiff(currentTime, c.crit) < COOLDOWN_AFTER_CRITICAL_MS)
        /\ ~(UnsignedDiff(currentTime, c.high) < COOLDOWN_AFTER_HIGH_MS)
        /\ ~(UnsignedDiff(currentTime, c.norm) < COOLDOWN_BETWEEN_SAME_MS)
    ELSE TRUE

Announcement_IsAllowed(priority, currentTime, c) ==
    IF priority = ANNOUNCE_PRIORITY_CRITICAL THEN TRUE
    ELSE IF priority = ANNOUNCE_PRIORITY_HIGH THEN
        ~(UnsignedDiff(currentTime, c.crit) < COOLDOWN_AFTER_CRITICAL_MS)
    ELSE IF priority = ANNOUNCE_PRIORITY_NORMAL THEN
        /\ ~(UnsignedDiff(currentTime, c.crit) < COOLDOWN_AFTER_CRITICAL_MS)
        /\ ~(UnsignedDiff(currentTime, c.high) < COOLDOWN_AFTER_HIGH_MS)
    ELSE IF priority = ANNOUNCE_PRIORITY_LOW THEN
        /\ ~(UnsignedDiff(currentTime, c.crit) < COOLDOWN_AFTER_CRITICAL_MS)
        /\ ~(UnsignedDiff(currentTime, c.high) < COOLDOWN_AFTER_HIGH_MS)
        /\ ~(UnsignedDiff(currentTime, c.norm) < COOLDOWN_BETWEEN_SAME_MS)
    ELSE TRUE

\* Mutation: a LOW announcement stamps the NORMAL tier.
Announcement_RecordTime_LowStampsNormal(priority, currentTime, c) ==
    IF priority = ANNOUNCE_PRIORITY_CRITICAL THEN
        [c EXCEPT !.crit = currentTime, !.fired = @ \cup {priority}]
    ELSE IF priority = ANNOUNCE_PRIORITY_HIGH THEN
        [c EXCEPT !.high = currentTime, !.fired = @ \cup {priority}]
    ELSE IF priority = ANNOUNCE_PRIORITY_NORMAL THEN
        [c EXCEPT !.norm = currentTime, !.fired = @ \cup {priority}]
    ELSE [c EXCEPT !.norm = currentTime]

Announcement_RecordTime(priority, currentTime, c) ==
    IF priority = ANNOUNCE_PRIORITY_CRITICAL THEN
        [c EXCEPT !.crit = currentTime, !.fired = @ \cup {priority}]
    ELSE IF priority = ANNOUNCE_PRIORITY_HIGH THEN
        [c EXCEPT !.high = currentTime, !.fired = @ \cup {priority}]
    ELSE IF priority = ANNOUNCE_PRIORITY_NORMAL THEN
        [c EXCEPT !.norm = currentTime, !.fired = @ \cup {priority}]
    ELSE c   \* Low priority doesn't block anything

\* The assignment of a threaded clock value to the three globals.
StoreAnnouncementClock(c) ==
    /\ g_LastCriticalAnnouncementTime' = c.crit
    /\ g_LastHighAnnouncementTime' = c.high
    /\ g_LastNormalAnnouncementTime' = c.norm
    /\ everFired' = c.fired

\* One announcement as the history records it: its text, the tier it was stamped
\* with, and the cooldown clock as it stood when the announcement was made.
Emission(text, tier, clock) == [text |-> text, tier |-> tier, clock |-> clock]

(***************************************************************************)
(* Player state announcements                                              *)
(***************************************************************************)
I_Marine == "marine"
I_Predator == "predator"
I_Alien == "alien"

\* Values the host reports for the player's status.
HealthValues == {100, 20}
WeaponSlots == {0, 1}
ChargePercents == {100, 20, 5}

PlayerStateInputs ==
    [health : HealthValues, weapon : WeaponSlots, cloak : {0, 1}, vision : {0},
     charge : ChargePercents]

\* PlayerState_Update past its early returns.  p is the tracked state, c the
\* cooldown clock on entry; the result holds both on exit and the announcements
\* made, in order.
PlayerState_UpdateBody(in, p, c, currentTime, pType, settings) ==
    LET currentHealth == in.health
        currentWeapon == in.weapon
        \* significant health change
        healthLost == p.lastHealth - currentHealth
        damage == p.lastHealth >= 0 /\ currentHealth # p.lastHealth /\ healthLost > 5
        c1 == IF damage THEN Announcement_RecordTime(ANNOUNCE_PRIORITY_CRITICAL, currentTime, c)
              ELSE c
        e1 == IF damage THEN <<Emission("Taking damage!", ANNOUNCE_PRIORITY_CRITICAL, c)>>
              ELSE <<>>
        \* low health warning
        low == currentHealth > 0 /\ currentHealth <= settings.health_warning_threshold
        warn == low /\ p.warningGiven = 0
        c2 == IF warn THEN Announcement_RecordTime(ANNOUNCE_PRIORITY_CRITICAL, currentTime, c1)
              ELSE c1
        e2 == IF warn
              THEN Append(e1, Emission("Warning! Health critical!", ANNOUNCE_PRIORITY_CRITICAL, c1))
              ELSE e1
        warningGiven == IF low THEN 1 ELSE 0
        \* weapon change
        weapon == /\ p.lastWeapon >= 0 /\ currentWeapon # p.lastWeapon
                  /\ Announcement_IsAllowed(ANNOUNCE_PRIORITY_NORMAL, currentTime, c2)
        c3 == IF weapon THEN Announcement_RecordTime(ANNOUNCE_PRIORITY_NORMAL, currentTime, c2)
              ELSE c2
        e3 == IF weapon THEN Append(e2, Emission("weapon", ANNOUNCE_PRIORITY_NORMAL, c2)) ELSE e2
        weaponDue == p.lastWeapon >= 0 /\ currentWeapon # p.lastWeapon
        r3 == IF weaponDue /\ ~weapon
              THEN <<Emission("weapon", ANNOUNCE_PRIORITY_NORMAL, c2)>> ELSE <<>>
        \* Predator equipment
        isPred == pType = I_Predator
        cloak == /\ isPred /\ p.lastCloak >= 0 /\ in.cloak # p.lastCloak
                 /\ Announcement_IsAllowed(ANNOUNCE_PRIORITY_NORMAL, currentTime, c3)
        c4 == IF cloak THEN Announcement_RecordTime(ANNOUNCE_PRIORITY_NORMAL, currentTime, c3)
              ELSE c3
        e4 == IF cloak THEN Append(e3, Emission("Cloak", ANNOUNCE_PRIORITY_NORMAL, c3)) ELSE e3
        cloakDue == isPred /\ p.lastCloak >= 0 /\ in.cloak # p.lastCloak
        r4 == IF cloakDue /\ ~cloak
              THEN Append(r3, Emission("Cloak", ANNOUNCE_PRIORITY_NORMAL, c3)) ELSE r3
        vision == /\ isPred /\ p.lastVision >= 0 /\ in.vision # p.lastVision
                  /\ Announcement_IsAllowed(ANNOUNCE_PRIORITY_NORMAL, currentTime, c4)
        c5 == IF vision THEN Announcement_RecordTime(ANNOUNCE_PRIORITY_NORMAL, currentTime, c4)
              ELSE c4
        e5 == IF vision THEN Append(e4, Emission("vision", ANNOUNCE_PRIORITY_NORMAL, c4)) ELSE e4
        visionDue == isPred /\ p.lastVision >= 0 /\ in.vision # p.lastVision
        r5 == IF visionDue /\ ~vision
              THEN Append(r4, Emission("vision", ANNOUNCE_PRIORITY_NORMAL, c4)) ELSE r4
        currentChargePercent == in.charge
        lastQuarter == p.lastCharge \div 25
        currentQuarter == currentChargePercent \div 25
        charge == /\ isPred /\ p.lastCharge >= 0
                  /\ currentQuarter # lastQuarter /\ currentChargePercent < p.lastCharge
                  /\ Announcement_IsAllowed(ANNOUNCE_PRIORITY_NORMAL, currentTime, c5)
        energyCritical == charge /\ currentChargePercent <= 10
        energyLow == charge /\ ~(currentChargePercent <= 10) /\ currentChargePercent <= 25
        c6 == IF energyCritical
              THEN Announcement_RecordTime(ANNOUNCE_PRIORITY_HIGH, currentTime, c5)
              ELSE IF energyLow
              THEN Announcement_RecordTime(ANNOUNCE_PRIORITY_NORMAL, currentTime, c5)
              ELSE c5
        e6 == IF energyCritical
              THEN Append(e5, Emission("Energy critical!", ANNOUNCE_PRIORITY_HIGH, c5))
              ELSE IF energyLow
              THEN Append(e5, Emission("Energy low.", ANNOUNCE_PRIORITY_NORMAL, c5))
              ELSE e5
        chargeDue == /\ isPred /\ p.lastCharge >= 0
                     /\ currentQuarter # lastQuarter /\ currentChargePercent < p.lastCharge
                     /\ currentChargePercent <= 25
        r6 == IF chargeDue /\ ~charge
              THEN Append(r5, Emission("Energy", ANNOUNCE_PRIORITY_NORMAL, c5)) ELSE r5
    IN  [p |-> [lastHealth |-> currentHealth,
                warningGiven |-> warningGiven,
                lastWeapon |-> currentWeapon,
                lastCloak |-> IF isPred THEN in.cloak ELSE p.lastCloak,
                lastVision |-> IF isPred THEN in.vision ELSE p.lastVision,
                lastCharge |-> IF isPred THEN currentChargePercent ELSE p.lastCharge],
         c |-> c6,
         out |-> e6,
         refused |-> r6]

TrackedPlayerState ==
    [lastHealth |-> g_LastHealth, warningGiven |-> g_HealthWarningGiven,
     lastWeapon |-> g_LastWeaponSlot, lastCloak |-> g_LastCloakOn,
     lastVision |-> g_LastVisionMode, lastCharge |-> g_LastFieldChargePercent]

\* Mutation: the engine is not available without its voice.
Accessibility_IsAvailable_NeedsTolk ==
    /\ backend.g_AccessibilityInitialized = 1
    /\ AccessibilitySettings.enabled
    /\ backend.g_TolkInitialized = 1

\* g_AccessibilityInitialized && AccessibilitySettings.enabled
Accessibility_IsAvailable ==
    backend.g_AccessibilityInitialized = 1 /\ AccessibilitySettings.enabled

PlayerState_Update(in) ==
    /\ Accessibility_IsAvailable /\ AccessibilitySettings.state_announcements_enabled
    /\ \E r \in {PlayerState_UpdateBody(in, TrackedPlayerState, AnnouncementClock, now,
                                       playerType, AccessibilitySettings)} :
           /\ g_LastHealth' = r.p.lastHealth
           /\ g_HealthWarningGiven' = r.p.warningGiven
           /\ g_LastWeaponSlot' = r.p.lastWeapon
           /\ g_LastCloakOn' = r.p.lastCloak
           /\ g_LastVisionMode' = r.p.lastVision
           /\ g_LastFieldChargePercent' = r.p.lastCharge
           /\ StoreAnnouncementClock(r.c)
           /\ emitted' = r.out
           /\ suppressed' = r.refused
    /\ UNCHANGED <<now, playerType, AccessibilitySettings, obstructionVars, navVars, call, toneState, backend>>

(***************************************************************************)
(* Obstruction detection                                                   *)
(***************************************************************************)
OBSTRUCTION_CHECK_INTERVAL == 10
OBSTRUCTION_CLOSE_DIST == 1500
MAXIMUM_STEP_HEIGHT == 450
JUMP_CLEARANCE_HEIGHT == 1200
CHEST_HEIGHT == 800
AUTO_ALERT_REPEAT_MS == 3000
AUTO_ALERT_DEBOUNCE == 3
AUTO_ALERT_CLEAR_DIST == 5000

\* Largest value the debounce counter is followed to.
MaxDebounce == 3

\* Results of the three rays: distance of the hit (0: nothing within range) and the
\* height of the forward hit point.
ForwardDistances == {0, 1000, 6000}
HitHeights == {-800, -1400, 600}
SideDistances == {0}
ObstructionInputs ==
    [forwardDist : ForwardDistances, playerY : {0}, hitY : HitHeights,
     leftDist : SideDistances, rightDist : SideDistances]

\* A step that stays right ahead of the player.
StepAheadInputs ==
    [forwardDist : {1000}, playerY : {0}, hitY : {-800},
     leftDist : SideDistances, rightDist : SideDistances]

AnalyzeObstruction(playerY, hitY) ==
    LET heightDiff == playerY - hitY
    IN  [isJumpable |-> IF heightDiff > -MAXIMUM_STEP_HEIGHT /\ heightDiff < MAXIMUM_STEP_HEIGHT
                        THEN 1 ELSE 0,
         isClearable |-> IF heightDiff > -JUMP_CLEARANCE_HEIGHT THEN 1 ELSE 0]

\* The debounce counter after a check that sees alertType close ahead.
\* Mutation: a new alert type does not restart the count.
DebounceCount_NeverRestarts(alertType, s) == s.debounceCounter + 1

DebounceCount(alertType, s) ==
    IF alertType = s.pendingAlertType THEN s.debounceCounter + 1 ELSE 1

\* The type has changed since the last automatic alert, or 3 seconds have passed.
\* Mutation: the alert may always be repeated.
AutoAlertNotRepeated_Always(alertType, s, currentTime) == TRUE

AutoAlertNotRepeated(alertType, s, currentTime) ==
    \/ alertType # s.lastAutoAlertType
    \/ UnsignedDiff(currentTime, s.lastAutoAlertTime) > AUTO_ALERT_REPEAT_MS

AlertTypes == {"step", "obstacle", "wall"}

AlertTypeOf(text) ==
    IF text = "Step ahead." THEN "step"
    ELSE IF text = "Low obstacle. Jump." THEN "obstacle"
    ELSE IF text = "Wall ahead." THEN "wall"
    ELSE ""

\* Obstruction_Update on a frame on which its counter fires.  o is g_ObstructionState,
\* s the static locals, c the cooldown clock.
Obstruction_UpdateBody(in, o, s, c, currentTime, settings) ==
    LET chestY == in.playerY - CHEST_HEIGHT
        hit == in.forwardDist > 0
        an == AnalyzeObstruction(chestY, in.hitY)
        o1 == [o EXCEPT !.forward_blocked = IF hit THEN 1 ELSE 0,
                        !.forward_distance = IF hit THEN in.forwardDist ELSE 0,
                        !.forward_is_jumpable = IF hit THEN an.isJumpable ELSE @,
                        !.forward_is_clearable = IF hit THEN an.isClearable ELSE @,
                        !.left_distance = in.leftDist,
                        !.right_distance = in.rightDist]
        close == o1.forward_blocked = 1 /\ o1.forward_distance < OBSTRUCTION_CLOSE_DIST
        alertType == IF o1.forward_is_jumpable = 1 THEN "step"
                     ELSE IF o1.forward_is_clearable = 1 THEN "obstacle"
                     ELSE "wall"
        debounce == DebounceCount(alertType, s)
        announce == /\ debounce >= AUTO_ALERT_DEBOUNCE
                    /\ Announcement_IsAllowed(ANNOUNCE_PRIORITY_HIGH, currentTime, c)
                    /\ AutoAlertNotRepeated(alertType, s, currentTime)
        text == IF o1.forward_is_jumpable = 1 THEN "Step ahead."
                ELSE IF o1.forward_is_clearable = 1 THEN "Low obstacle. Jump."
                ELSE "Wall ahead."
        s1 == IF close
              THEN [s EXCEPT !.pendingAlertType = alertType,
                             !.debounceCounter = debounce,
                             !.lastAutoAlertType = IF announce THEN alertType ELSE @,
                             !.lastAutoAlertTime = IF announce THEN currentTime ELSE @]
              ELSE [s EXCEPT !.pendingAlertType = "", !.debounceCounter = 0]
        o2 == IF close THEN [o1 EXCEPT !.last_announced_forward = o1.forward_distance] ELSE o1
        o3 == IF o2.forward_blocked = 0 \/ o2.forward_distance > AUTO_ALERT_CLEAR_DIST
              THEN [o2 EXCEPT !.last_announced_forward = 0]
              ELSE o2
        cues == settings.navigation_cues_enabled
        due == /\ debounce >= AUTO_ALERT_DEBOUNCE
               /\ AutoAlertNotRepeated(alertType, s, currentTime)
    IN  [o |-> IF cues THEN o3 ELSE o1,
         s |-> IF cues THEN s1 ELSE s,
         seen |-> IF cues /\ close THEN alertType ELSE "",
         c |-> IF cues /\ close /\ announce
               THEN Announcement_RecordTime(ANNOUNCE_PRIORITY_HIGH, currentTime, c)
               ELSE c,
         out |-> IF cues /\ close /\ announce
                 THEN <<Emission(text, ANNOUNCE_PRIORITY_HIGH, c)>>
                 ELSE <<>>,
         refused |-> IF cues /\ close /\ due /\ ~announce
                     THEN <<Emission(text, ANNOUNCE_PRIORITY_HIGH, c)>>
                     ELSE <<>>]

\* The history after a check that left the result r at the time currentTime: the
\* alert types the last three checks saw close ahead ("": none), when each alert
\* type was last spoken (-1: never), and for an alert spoken by this check the time
\* since its type was last spoken (-1: never, or no alert) and whether an alert of
\* another type was spoken since then.
GhostAfterCheck(g, r, currentTime) ==
    LET said == IF r.out = <<>> THEN "" ELSE AlertTypeOf(r.out[1].text)
        again == said # "" /\ g.spokenAt[said] # -1
    IN  [seen |-> IF Len(g.seen) < AUTO_ALERT_DEBOUNCE THEN Append(g.seen, r.seen)
                  ELSE Append(Tail(g.seen), r.seen),
         spokenAt |-> [t \in AlertTypes |->
                          IF t = said THEN currentTime ELSE g.spokenAt[t]],
         gap |-> IF again THEN currentTime - g.spokenAt[said] ELSE -1,
         otherBetween |-> /\ again
                          /\ \E u \in AlertTypes \ {said} :
                                 g.spokenAt[u] >= g.spokenAt[said]]

Obstruction_Update(in) ==
    /\ g_ObstructionState.enabled = 1 /\ Accessibility_IsAvailable
    /\ world.present
    /\ IF obstructionStatics.frameCounter + 1 < OBSTRUCTION_CHECK_INTERVAL
       THEN /\ obstructionStatics' =
                   [obstructionStatics EXCEPT !.frameCounter = @ + 1]
            /\ emitted' = <<>>
            /\ suppressed' = <<>>
            /\ UNCHANGED <<g_ObstructionState, obsGhost, g_LastCriticalAnnouncementTime,
                           g_LastHighAnnouncementTime, g_LastNormalAnnouncementTime,
                           everFired>>
       ELSE \E r \in {Obstruction_UpdateBody(in, g_ObstructionState,
                         [obstructionStatics EXCEPT !.frameCounter = 0],
                         AnnouncementClock, now, AccessibilitySettings)} :
                /\ r.s.debounceCounter <= MaxDebounce
                /\ g_ObstructionState' = r.o
                /\ obstructionStatics' = r.s
                /\ obsGhost' = GhostAfterCheck(obsGhost, r, now)
                /\ StoreAnnouncementClock(r.c)
                /\ emitted' = r.out
                /\ suppressed' = r.refused
    /\ UNCHANGED <<now, playerStateVars, AccessibilitySettings, navVars, call, toneState, backend>>

(***************************************************************************)
(* Auto-navigation: state, position history, strategy escalation           *)
(***************************************************************************)
NAV_TARGET_NONE == 0
NAV_TARGET_INTERACTIVE == 1
NAV_TARGET_NPC == 2
NAV_TARGET_EXIT == 3
NAV_TARGET_ITEM == 4

NAV_STRATEGY_DIRECT == 0
NAV_STRATEGY_WALL_FOLLOW_LEFT == 1
NAV_STRATEGY_WALL_FOLLOW_RIGHT == 2
NAV_STRATEGY_BACKTRACK == 3
NAV_STRATEGY_WIDE_AROUND_LEFT == 4
NAV_STRATEGY_WIDE_AROUND_RIGHT == 5

NAV_POSITION_HISTORY_SIZE == 30

PROGRESS_ANNOUNCE_DISTANCE == 5000
PROGRESS_ANNOUNCE_TIME_MS == 10000
PROGRESS_MOVING_AWAY_THRESHOLD == 3000
ARRIVAL_DISTANCE == 2500

\* A null char* (no target name).
NULL == ""

\* One spoken cue: the format string and its arguments.
Cue(text, name, number) == [text |-> text, name |-> name, number |-> number]
Say(text) == Cue(text, "", 0)

\* The element of a one-element set.  { e(v) : v \in {x} } names the value of x
\* as v, so that x is computed once however often e uses it.
The(S) == CHOOSE v \in S : TRUE

\* int / int of C: the quotient is truncated toward zero (b > 0).
CDiv(a, b) ==
    IF a >= 0 THEN a \div b
    ELSE LET q == a \div b IN IF q * b = a THEN q ELSE q + 1

\* int arithmetic of a 32-bit build.  Signed overflow is undefined in C; the
\* builds of the game (x86, two's complement, no trapping) keep the low 32 bits
\* of the exact result.  A value is split into a signed high half and an
\* unsigned low half of 16 bits, so that no intermediate result leaves the range
\* of int.
Lo16(a) == a % 65536
Hi16(a) == (a - Lo16(a)) \div 65536
Pack32(hi, lo) == (((hi + 32768) % 65536) - 32768) * 65536 + lo

FitsSum(a) == a > -1073741824 /\ a < 1073741824
FitsProduct(a) == a >= -46340 /\ a <= 46340

Add32(a, b) ==
    IF FitsSum(a) /\ FitsSum(b) THEN a + b
    ELSE LET lo == Lo16(a) + Lo16(b)
         IN  Pack32(Hi16(a) + Hi16(b) + (lo \div 65536), lo % 65536)

Sub32(a, b) ==
    IF FitsSum(a) /\ FitsSum(b) THEN a - b
    ELSE LET lo == Lo16(a) - Lo16(b)
         IN  Pack32(Hi16(a) - Hi16(b) + (lo \div 65536), lo % 65536)

Mul32(a, b) ==
    IF FitsProduct(a) /\ FitsProduct(b) THEN a * b
    ELSE LET la == Lo16(a)
             lb == Lo16(b)
             p0 == la * (lb % 256)
             p1 == la * (lb \div 256)
             low == (p1 % 256) * 256 + p0
             cross == ((Hi16(a) * lb) % 65536) + ((la * Hi16(b)) % 65536)
         IN  Pack32((p1 \div 256) + (low \div 65536) + cross, low % 65536)

Abs(a) == IF a < 0 THEN -a ELSE a

\* (int)sqrt((double)n) for n >= 0: the largest r with r*r <= n.
RECURSIVE SqrtSearch(_, _, _)
SqrtSearch(n, lo, hi) ==
    IF lo >= hi THEN lo
    ELSE LET mid == (lo + hi + 1) \div 2
         IN  IF mid * mid <= n THEN SqrtSearch(n, mid, hi) ELSE SqrtSearch(n, lo, mid - 1)

ISqrt(n) == SqrtSearch(n, 0, 46340)

Accessibility_GetDistance(x1, y1, z1, x2, y2, z2) ==
    LET dx == x2 - x1
        dy == y2 - y1
        dz == z2 - z1
    IN  ISqrt(dx * dx + dy * dy + dz * dz)

\* One POSITION_RECORD.
PositionRecord(x, y, z, timestamp) == [x |-> x, y |-> y, z |-> z, timestamp |-> timestamp]

\* Mutation: the sample count is incremented without the capacity test.
PathFind_RecordPosition_CountUnbounded(nav, x, y, z, currentTime) ==
    [nav EXCEPT !.position_history[nav.history_index] = PositionRecord(x, y, z, currentTime),
                !.history_index = (nav.history_index + 1) % NAV_POSITION_HISTORY_SIZE,
                !.history_count = @ + 1]

PathFind_RecordPosition(nav, x, y, z, currentTime) ==
    [nav EXCEPT !.position_history[nav.history_index] = PositionRecord(x, y, z, currentTime),
                !.history_index = (nav.history_index + 1) % NAV_POSITION_HISTORY_SIZE,
                !.history_count = IF @ < NAV_POSITION_HISTORY_SIZE THEN @ + 1 ELSE @]

\* int % int of C: the remainder has the sign of the dividend (b > 0).
CRem(a, b) == a - CDiv(a, b) * b

\* Mutation: the index is reduced without NAV_POSITION_HISTORY_SIZE added first.
HistorySlot_NoOffset(nav, i) ==
    CRem(nav.history_index - 1 - i, NAV_POSITION_HISTORY_SIZE)

\* The slot read i samples back from the newest one.
HistorySlot(nav, i) ==
    CRem(nav.history_index - 1 - i + NAV_POSITION_HISTORY_SIZE, NAV_POSITION_HISTORY_SIZE)

\* The sums accumulated by the loop of PathFind_DetectOscillation over the last
\* 6 samples (i = 0..5).
RECURSIVE OscillationSums(_, _)
OscillationSums(nav, i) ==
    IF i = 6 THEN [sumX |-> 0, sumZ |-> 0, sumX2 |-> 0, sumZ2 |-> 0, count |-> 0]
    ELSE LET rec == nav.position_history[HistorySlot(nav, i)]
             rest == OscillationSums(nav, i + 1)
         IN  [sumX |-> Add32(rest.sumX, rec.x),
              sumZ |-> Add32(rest.sumZ, rec.z),
              sumX2 |-> Add32(rest.sumX2, Mul32(rec.x, rec.x)),
              sumZ2 |-> Add32(rest.sumZ2, Mul32(rec.z, rec.z)),
              count |-> rest.count + 1]

PathFind_DetectOscillation(nav) ==
    IF nav.history_count < 6 THEN 0
    ELSE LET s == OscillationSums(nav, 0)
             meanX == CDiv(s.sumX, s.count)
             meanZ == CDiv(s.sumZ, s.count)
             varX == Sub32(CDiv(s.sumX2, s.count), Mul32(meanX, meanX))
             varZ == Sub32(CDiv(s.sumZ2, s.count), Mul32(meanZ, meanZ))
             oldest == (nav.history_index - 6 + NAV_POSITION_HISTORY_SIZE)
                           % NAV_POSITION_HISTORY_SIZE
             newest == (nav.history_index - 1 + NAV_POSITION_HISTORY_SIZE)
                           % NAV_POSITION_HISTORY_SIZE
             dx == Sub32(nav.position_history[newest].x, nav.position_history[oldest].x)
             dz == Sub32(nav.position_history[newest].z, nav.position_history[oldest].z)
             totalMovement == Add32(Mul32(dx, dx), Mul32(dz, dz))
         IN  IF Add32(varX, varZ) > 500000 /\ totalMovement < 1000000 THEN 1 ELSE 0

\* Squared distance between the newest sample and the one i samples back.
LoopDistSq(nav, i) ==
    LET current == nav.position_history[HistorySlot(nav, 0)]
        old == nav.position_history[HistorySlot(nav, i)]
        dx == current.x - old.x
        dz == current.z - old.z
    IN  dx * dx + dz * dz

\* PathFind_DetectLoop: the return value and *loopSize (0 when not assigned).
PathFind_DetectLoop(nav) ==
    IF nav.history_count < 18 THEN [found |-> 0, loopSize |-> 0]
    ELSE LET hits == {i \in 18 .. (nav.history_count - 1) : LoopDistSq(nav, i) < 1000000}
         IN  IF hits = {} THEN [found |-> 0, loopSize |-> 0]
             ELSE [found |-> 1, loopSize |-> CHOOSE i \in hits : \A j \in hits : i <= j]

\* Mutation: the escalation leaves BACKTRACK out of the order.
PathFind_EscalateStrategy_SkipsBacktrack(nav) ==
    LET n0 == [nav EXCEPT !.strategy_frames = 0]
        s == nav.current_strategy
    IN  IF s = NAV_STRATEGY_DIRECT THEN
            [nav |-> [n0 EXCEPT !.current_strategy = NAV_STRATEGY_WALL_FOLLOW_LEFT],
             cues |-> <<Say("Trying wall follow left.")>>]
        ELSE IF s = NAV_STRATEGY_WALL_FOLLOW_LEFT THEN
            [nav |-> [n0 EXCEPT !.current_strategy = NAV_STRATEGY_WALL_FOLLOW_RIGHT],
             cues |-> <<Say("Trying wall follow right.")>>]
        ELSE IF s = NAV_STRATEGY_WALL_FOLLOW_RIGHT \/ s = NAV_STRATEGY_BACKTRACK THEN
            [nav |-> [n0 EXCEPT !.current_strategy = NAV_STRATEGY_WIDE_AROUND_LEFT],
             cues |-> <<Say("Trying wide path left.")>>]
        ELSE IF s = NAV_STRATEGY_WIDE_AROUND_LEFT THEN
            [nav |-> [n0 EXCEPT !.current_strategy = NAV_STRATEGY_WIDE_AROUND_RIGHT],
             cues |-> <<Say("Trying wide path right.")>>]
        ELSE IF s = NAV_STRATEGY_WIDE_AROUND_RIGHT THEN
            IF nav.strategy_failures + 1 >= 2 THEN
                [nav |-> [n0 EXCEPT !.strategy_failures = @ + 1, !.auto_move = 0,
                                    !.current_strategy = NAV_STRATEGY_DIRECT],
                 cues |-> <<Say("Cannot reach target. Try manual navigation.")>>]
            ELSE
                [nav |-> [n0 EXCEPT !.strategy_failures = @ + 1,
                                    !.current_strategy = NAV_STRATEGY_DIRECT],
                 cues |-> <<Say("Retrying direct path.")>>]
        ELSE [nav |-> n0, cues |-> <<>>]

\* PathFind_EscalateStrategy: the state after the call and the cues it speaks.
PathFind_EscalateStrategy(nav) ==
    LET n0 == [nav EXCEPT !.strategy_frames = 0]
        s == nav.current_strategy
    IN  IF s = NAV_STRATEGY_DIRECT THEN
            [nav |-> [n0 EXCEPT !.current_strategy = NAV_STRATEGY_WALL_FOLLOW_LEFT],
             cues |-> <<Say("Trying wall follow left.")>>]
        ELSE IF s = NAV_STRATEGY_WALL_FOLLOW_LEFT THEN
            [nav |-> [n0 EXCEPT !.current_strategy = NAV_STRATEGY_WALL_FOLLOW_RIGHT],
             cues |-> <<Say("Trying wall follow right.")>>]
        ELSE IF s = NAV_STRATEGY_WALL_FOLLOW_RIGHT THEN
            [nav |-> [n0 EXCEPT !.current_strategy = NAV_STRATEGY_BACKTRACK],
             cues |-> <<Say("Backing up.")>>]
        ELSE IF s = NAV_STRATEGY_BACKTRACK THEN
            [nav |-> [n0 EXCEPT !.current_strategy = NAV_STRATEGY_WIDE_AROUND_LEFT],
             cues |-> <<Say("Trying wide path left.")>>]
        ELSE IF s = NAV_STRATEGY_WIDE_AROUND_LEFT THEN
            [nav |-> [n0 EXCEPT !.current_strategy = NAV_STRATEGY_WIDE_AROUND_RIGHT],
             cues |-> <<Say("Trying wide path right.")>>]
        ELSE IF s = NAV_STRATEGY_WIDE_AROUND_RIGHT THEN
            IF nav.strategy_failures + 1 >= 2 THEN
                [nav |-> [n0 EXCEPT !.strategy_failures = @ + 1, !.auto_move = 0,
                                    !.current_strategy = NAV_STRATEGY_DIRECT],
                 cues |-> <<Say("Cannot reach target. Try manual navigation.")>>]
            ELSE
                [nav |-> [n0 EXCEPT !.strategy_failures = @ + 1,
                                    !.current_strategy = NAV_STRATEGY_DIRECT],
                 cues |-> <<Say("Retrying direct path.")>>]
        ELSE [nav |-> n0, cues |-> <<>>]

(***************************************************************************)
(* Progress and arrival                                                    *)
(***************************************************************************)
AutoNav_CheckProgress(nav, currentTime) ==
    IF nav.enabled = 0 \/ nav.auto_move = 0 THEN [nav |-> nav, cues |-> <<>>]
    ELSE LET currentDist == nav.target_distance
             lastDist == nav.last_announced_distance
             n1 == IF currentDist < nav.closest_achieved
                   THEN [nav EXCEPT !.closest_achieved = currentDist] ELSE nav
             distanceChange == lastDist - currentDist
             timeSince == UnsignedDiff(currentTime, nav.last_progress_time)
             meters == CDiv(currentDist, 1000)
         IN  IF distanceChange >= PROGRESS_ANNOUNCE_DISTANCE THEN
                 [nav |-> [n1 EXCEPT !.last_announced_distance = currentDist,
                                     !.last_progress_time = currentTime],
                  cues |-> IF meters > 0 THEN <<Cue("%d meters.", "", meters)>> ELSE <<>>]
             ELSE IF distanceChange <= -PROGRESS_MOVING_AWAY_THRESHOLD /\ timeSince > 5000 THEN
                 [nav |-> [n1 EXCEPT !.last_announced_distance = currentDist,
                                     !.last_progress_time = currentTime],
                  cues |-> <<Say("Moving away from target.")>>]
             ELSE IF timeSince > PROGRESS_ANNOUNCE_TIME_MS /\ Abs(distanceChange) < 2000 THEN
                 [nav |-> [n1 EXCEPT !.last_progress_time = currentTime],
                  cues |-> <<Say("Navigation stalled.")>>]
             ELSE [nav |-> n1, cues |-> <<>>]

\* The contextual announcement built by AutoNav_CheckArrival.
ArrivalMessage(nav) ==
    IF nav.target_type = NAV_TARGET_INTERACTIVE THEN
        Cue("Arrived at %s. Press SPACE to interact.",
            IF nav.target_name # NULL THEN nav.target_name ELSE "target", 0)
    ELSE IF nav.target_type = NAV_TARGET_ITEM THEN Say("Item nearby. Walk forward to collect.")
    ELSE Say("Target reached.")

AutoNav_CheckArrival(nav) ==
    IF nav.enabled = 0 THEN [nav |-> nav, cues |-> <<>>]
    ELSE IF nav.arrival_announced = 1 THEN [nav |-> nav, cues |-> <<>>]
    ELSE IF nav.target_distance >= ARRIVAL_DISTANCE THEN [nav |-> nav, cues |-> <<>>]
    ELSE [nav |-> [nav EXCEPT !.arrival_announced = 1, !.target_reached = 1, !.auto_move = 0],
          cues |-> <<ArrivalMessage(nav)>>]

(***************************************************************************)
(* Target selection                                                        *)
(***************************************************************************)
IsNavTarget(bhvr, targetType) ==
    IF targetType = NAV_TARGET_INTERACTIVE THEN
        bhvr \in {"I_BehaviourBinarySwitch", "I_BehaviourLinkSwitch", "I_BehaviourDatabase",
                  "I_BehaviourLift", "I_BehaviourProximityDoor", "I_BehaviourLiftDoor",
                  "I_BehaviourSwitchDoor", "I_BehaviourGenerator"}
    ELSE IF targetType = NAV_TARGET_NPC THEN
        bhvr \in {"I_BehaviourAlien", "I_BehaviourQueenAlien", "I_BehaviourFaceHugger",
                  "I_BehaviourPredator", "I_BehaviourXenoborg", "I_BehaviourMarine",
                  "I_BehaviourSeal"}
    ELSE IF targetType = NAV_TARGET_EXIT THEN
        bhvr \in {"I_BehaviourProximityDoor", "I_BehaviourLiftDoor", "I_BehaviourSwitchDoor",
                  "I_BehaviourLift"}
    ELSE IF targetType = NAV_TARGET_ITEM THEN
        bhvr = "I_BehaviourInanimateObject"
    ELSE FALSE

GetNavTargetName(bhvr) ==
    IF bhvr \in {"I_BehaviourBinarySwitch", "I_BehaviourLinkSwitch"} THEN "switch"
    ELSE IF bhvr = "I_BehaviourDatabase" THEN "terminal"
    ELSE IF bhvr = "I_BehaviourLift" THEN "lift"
    ELSE IF bhvr = "I_BehaviourAlien" THEN "alien"
    ELSE IF bhvr = "I_BehaviourQueenAlien" THEN "queen"
    ELSE IF bhvr = "I_BehaviourFaceHugger" THEN "facehugger"
    ELSE IF bhvr = "I_BehaviourPredator" THEN "predator"
    ELSE IF bhvr = "I_BehaviourXenoborg" THEN "xenoborg"
    ELSE IF bhvr \in {"I_BehaviourMarine", "I_BehaviourSeal"} THEN "marine"
    ELSE IF bhvr \in {"I_BehaviourProximityDoor", "I_BehaviourSwitchDoor"} THEN "door"
    ELSE IF bhvr = "I_BehaviourLiftDoor" THEN "lift door"
    ELSE IF bhvr = "I_BehaviourInanimateObject" THEN "item"
    ELSE "target"

IsEntityThreat(bhvr, pType) ==
    IF bhvr \in {"I_BehaviourAlien", "I_BehaviourQueenAlien", "I_BehaviourFaceHugger"} THEN
        pType = I_Marine \/ pType = I_Predator
    ELSE IF bhvr = "I_BehaviourPredator" THEN pType = I_Marine \/ pType = I_Alien
    ELSE IF bhvr \in {"I_BehaviourMarine", "I_BehaviourSeal"} THEN
        pType = I_Alien \/ pType = I_Predator
    ELSE IF bhvr = "I_BehaviourXenoborg" THEN TRUE
    ELSE FALSE

\* The score of one strategy block in the loop of AutoNav_FindTarget.
TargetScore(bhvr, dist, pType) ==
    dist - (IF IsEntityThreat(bhvr, pType) THEN 5000 ELSE 0)
         - (IF bhvr \in {"I_BehaviourBinarySwitch", "I_BehaviourLinkSwitch",
                         "I_BehaviourDatabase", "I_BehaviourGenerator"} THEN 2000 ELSE 0)
         - (IF bhvr \in {"I_BehaviourProximityDoor", "I_BehaviourLiftDoor",
                         "I_BehaviourSwitchDoor"} THEN 1500 ELSE 0)

\* The loop of AutoNav_FindTarget over ActiveStBlockList, from entry i on; nearestSB
\* is the index of the best block so far (0: none).
\* Mutation: a block that only equals the best score so far replaces it.
BetterScore_OrEqual(score, bestScore) == score <= bestScore

BetterScore(score, bestScore) == score < bestScore

RECURSIVE ScanTargets(_, _, _, _, _)
ScanTargets(in, i, best, targetType, pType) ==
    IF i > Len(in.entities) THEN best
    ELSE LET sb == in.entities[i]
         IN  IF ~sb.DynPtr \/ ~IsNavTarget(sb.bhvr, targetType)
             THEN ScanTargets(in, i + 1, best, targetType, pType)
             ELSE LET dist == Accessibility_GetDistance(in.x, in.y, in.z, sb.x, sb.y, sb.z)
                      score == TargetScore(sb.bhvr, dist, pType)
                  IN  IF BetterScore(score, best.bestScore)
                      THEN ScanTargets(in, i + 1,
                               [bestScore |-> score, nearestDist |-> dist, nearestSB |-> i],
                               targetType, pType)
                      ELSE ScanTargets(in, i + 1, best, targetType, pType)

\* Mutation: the player is taken to be there always.
PlayerMissing_Never(in) == FALSE

\* !Player || !Player->ObStrategyBlock || !Player->ObStrategyBlock->DynPtr
PlayerMissing(in) == ~in.present

AutoNav_FindTarget(nav, in, pType) ==
    IF PlayerMissing(in) THEN [nav EXCEPT !.target_name = NULL]
    ELSE The({
             IF best.nearestSB # 0 THEN
                 [nav EXCEPT !.target_x = in.entities[best.nearestSB].x,
                             !.target_y = in.entities[best.nearestSB].y,
                             !.target_z = in.entities[best.nearestSB].z,
                             !.target_distance = best.nearestDist,
                             !.target_name = GetNavTargetName(in.entities[best.nearestSB].bhvr)]
             ELSE [nav EXCEPT !.target_name = NULL, !.target_distance = 0]
             : best \in {ScanTargets(in, 1,
                             [bestScore |-> 999999999, nearestDist |-> 999999999,
                              nearestSB |-> 0],
                             nav.target_type, pType)} })

GetTargetTypeName(type) ==
    IF type = NAV_TARGET_INTERACTIVE THEN "interactive"
    ELSE IF type = NAV_TARGET_NPC THEN "enemy"
    ELSE IF type = NAV_TARGET_EXIT THEN "exit"
    ELSE IF type = NAV_TARGET_ITEM THEN "item"
    ELSE "unknown"

\* The cue of AutoNav_AnnounceTarget (the direction word is left out).
AutoNav_AnnounceTarget(nav, in) ==
    IF nav.target_name = NULL THEN
        <<Cue("No %s found nearby.", GetTargetTypeName(nav.target_type), 0)>>
    ELSE IF ~in.present THEN <<>>
    ELSE <<Cue("Navigating to %s. %s, %s.", nav.target_name, nav.target_distance)>>

(***************************************************************************)
(* Hotkey operations                                                       *)
(***************************************************************************)
\* Mutation: the toggle starts each navigation with the arrival flags cleared.
AutoNav_Toggle_ClearsArrival(nav, in, pType) ==
    LET n1 == [nav EXCEPT !.enabled = IF @ = 0 THEN 1 ELSE 0,
                          !.arrival_announced = 0, !.target_reached = 0]
    IN  IF n1.enabled = 1 THEN
            The({
                IF n2.target_name # NULL THEN
                    [nav |-> n2,
                     cues |-> <<Cue("Auto-navigation enabled. Targeting %s.",
                                    GetTargetTypeName(n2.target_type), 0)>>
                                  \o AutoNav_AnnounceTarget(n2, in)]
                ELSE [nav |-> n2, cues |-> <<Say("Auto-navigation enabled. No target found.")>>]
                : n2 \in {AutoNav_FindTarget(n1, in, pType)} })
        ELSE [nav |-> n1, cues |-> <<Say("Auto-navigation disabled.")>>]

AutoNav_Toggle(nav, in, pType) ==
    LET n1 == [nav EXCEPT !.enabled = IF @ = 0 THEN 1 ELSE 0]
    IN  IF n1.enabled = 1 THEN
            The({
                IF n2.target_name # NULL THEN
                    [nav |-> n2,
                     cues |-> <<Cue("Auto-navigation enabled. Targeting %s.",
                                    GetTargetTypeName(n2.target_type), 0)>>
                                  \o AutoNav_AnnounceTarget(n2, in)]
                ELSE [nav |-> n2, cues |-> <<Say("Auto-navigation enabled. No target found.")>>]
                : n2 \in {AutoNav_FindTarget(n1, in, pType)} })
        ELSE [nav |-> n1, cues |-> <<Say("Auto-navigation disabled.")>>]

AutoNav_ToggleRotation(nav) ==
    LET n1 == [nav EXCEPT !.auto_rotate = IF @ = 0 THEN 1 ELSE 0]
    IN  [nav |-> n1,
         cues |-> <<Say(IF n1.auto_rotate = 1 THEN "Auto-rotation enabled."
                        ELSE "Auto-rotation disabled.")>>]

AutoNav_ToggleMovement(nav) ==
    LET n1 == [nav EXCEPT !.auto_move = IF @ = 0 THEN 1 ELSE 0]
    IN  [nav |-> n1,
         cues |-> <<Say(IF n1.auto_move = 1 THEN "Auto-movement enabled."
                        ELSE "Auto-movement disabled.")>>]

AutoNav_CycleTargetType(nav, in, pType) ==
    LET next == IF nav.target_type = NAV_TARGET_INTERACTIVE THEN NAV_TARGET_NPC
                ELSE IF nav.target_type = NAV_TARGET_NPC THEN NAV_TARGET_EXIT
                ELSE IF nav.target_type = NAV_TARGET_EXIT THEN NAV_TARGET_ITEM
                ELSE NAV_TARGET_INTERACTIVE
    IN  The({
            [nav |-> n1,
             cues |-> <<Cue("Now targeting: %s.", GetTargetTypeName(n1.target_type), 0)>>
                          \o (IF n1.target_name # NULL THEN AutoNav_AnnounceTarget(n1, in)
                              ELSE <<>>)]
            : n1 \in {AutoNav_FindTarget([nav EXCEPT !.target_type = next], in, pType)} })

\* AutoNav_Init puts every member of AutoNavState back; the static locals of
\* AutoNav_Update are out of its reach.
AutoNav_Init(nav) ==
    [nav |-> [nav EXCEPT
                 !.enabled = 0, !.auto_rotate = 0, !.auto_move = 0,
                 !.target_type = NAV_TARGET_INTERACTIVE,
                 !.target_x = 0, !.target_y = 0, !.target_z = 0,
                 !.target_distance = 0, !.target_name = NULL,
                 !.history_index = 0, !.history_count = 0,
                 !.position_history = [i \in 0 .. (NAV_POSITION_HISTORY_SIZE - 1) |->
                                          PositionRecord(0, 0, 0, 0)],
                 !.last_announced_distance = 0, !.closest_achieved = 999999,
                 !.last_progress_time = 0,
                 !.current_strategy = NAV_STRATEGY_DIRECT, !.strategy_frames = 0,
                 !.strategy_failures = 0,
                 !.arrival_announced = 0, !.target_reached = 0],
     cues |-> <<>>]

(***************************************************************************)
(* AutoNav_Update                                                          *)
(***************************************************************************)
AUTONAV_FORWARD_SPEED == 13000
AUTONAV_STRAFE_SPEED == 8000
AUTONAV_BACKTRACK_SPEED == -8000
BACKTRACK_DURATION_FRAMES == 90

\* What one step of the navigation code did, for the history variable navTrace.
BaseTrace(op, nav) ==
    [op |-> op,
     ran |-> FALSE,                      \* AutoNav_Update got past its early returns
     enabledAtEntry |-> nav.enabled,
     strategyBefore |-> nav.current_strategy,
     strategyEscalated |-> nav.current_strategy,   \* after the escalation block
     strategyAfter |-> nav.current_strategy,
     failuresBefore |-> nav.strategy_failures,
     failuresAfter |-> nav.strategy_failures,
     escalations |-> <<>>,               \* calls of PathFind_EscalateStrategy
     stuckTick |-> FALSE,                \* the stuck counter was incremented
     stuckAtEntry |-> 0,
     sampled |-> FALSE,                  \* PathFind_RecordPosition was called
     refreshed |-> FALSE,                \* AutoNav_FindTarget was called
     progressChecked |-> FALSE,
     tone |-> FALSE,                     \* NavTone_PlayDirectional was called
     arrived |-> FALSE,                  \* target_distance < ARRIVAL_DISTANCE at the arrival check
     wroteMotion |-> FALSE,              \* Mvt_MotionIncrement / Mvt_SideStepIncrement written
     wroteTurn |-> FALSE,                \* AngVelocity.EulerY written
     wroteJump |-> FALSE,
     rayCasts |-> 0,                     \* calls of CastObstructionRayEx / FindPolygonInLineOfSight
     turnBias |-> 0,                     \* adjustedTurnAmount at the smoothing step
     turnBefore |-> 0,                   \* smoothedTurnAmount before it
     cues |-> <<>>]

\* if (stuckCounter > 90)
StuckLimitReached(stuckCounter) == stuckCounter > 90

\* AutoNav_Update from the position sample to the end of the escalation block
\* (the player is present and a target is selected).
AutoNav_Track(in, nav, st, currentTime) ==
    LET playerX == in.x
        playerZ == in.z
        recordCount == st.positionRecordCounter + 1
        record == recordCount >= 10
        progressCount == st.progressCheckCounter + 1
        progress == progressCount >= 60
        toneCount == st.toneCounter + 1
        tone == toneCount >= 20
        movedX == playerX - st.lastPlayerX
        movedZ == playerZ - st.lastPlayerZ
        distMoved == movedX * movedX + movedZ * movedZ
        stuck1 == IF distMoved < 10000 THEN st.stuckCounter + 1 ELSE 0
        \* the escalation block, on the state n4 left by the sampling and the
        \* progress check, with the detectors' results d
        Escalated(n4, cues, d) ==
            LET watching == n4.auto_move # 0 /\ n4.target_reached = 0
                byStuck == watching /\ StuckLimitReached(stuck1)
                byOscillation == watching /\ ~byStuck /\ d.isOscillating # 0
                byLoop == /\ watching /\ ~byStuck /\ ~byOscillation
                          /\ d.isLooping # 0 /\ d.loopSize > 0
                called == byStuck \/ byOscillation \/ byLoop
                Applied(n5) ==
                    LET strategy == n5.nav.current_strategy
                        avoidanceState ==
                            IF ~byStuck THEN st.avoidanceState
                            ELSE IF strategy \in {NAV_STRATEGY_WALL_FOLLOW_LEFT,
                                                  NAV_STRATEGY_WIDE_AROUND_LEFT} THEN 1
                            ELSE IF strategy \in {NAV_STRATEGY_WALL_FOLLOW_RIGHT,
                                                  NAV_STRATEGY_WIDE_AROUND_RIGHT} THEN 2
                            ELSE IF strategy = NAV_STRATEGY_BACKTRACK THEN 0
                            ELSE st.avoidanceState
                        avoidanceTimer ==
                            IF ~byStuck THEN st.avoidanceTimer
                            ELSE IF strategy \in {NAV_STRATEGY_WALL_FOLLOW_LEFT,
                                                  NAV_STRATEGY_WALL_FOLLOW_RIGHT} THEN 180
                            ELSE IF strategy \in {NAV_STRATEGY_WIDE_AROUND_LEFT,
                                                  NAV_STRATEGY_WIDE_AROUND_RIGHT} THEN 300
                            ELSE st.avoidanceTimer
                    IN  [nav |-> n5.nav,
                         st |-> [st EXCEPT
                                    !.positionRecordCounter = IF record THEN 0 ELSE recordCount,
                                    !.progressCheckCounter = IF progress THEN 0 ELSE progressCount,
                                    !.toneCounter = IF tone THEN 0 ELSE toneCount,
                                    !.stuckCounter = IF ~watching \/ byStuck THEN 0 ELSE stuck1,
                                    !.avoidanceState = avoidanceState,
                                    !.avoidanceTimer = avoidanceTimer,
                                    !.lastPlayerX = playerX,
                                    !.lastPlayerZ = playerZ],
                         cues |-> cues \o n5.cues,
                         escalations |->
                             IF called
                             THEN <<[from |-> n4.current_strategy,
                                     to |-> n5.nav.current_strategy,
                                     failuresBefore |-> n4.strategy_failures,
                                     failuresAfter |-> n5.nav.strategy_failures,
                                     auto_move |-> n5.nav.auto_move,
                                     cause |-> IF byStuck THEN "stuck"
                                               ELSE IF byOscillation THEN "oscillation"
                                               ELSE "loop"]>>
                             ELSE <<>>,
                         stuckTick |-> watching /\ distMoved < 10000,
                         sampled |-> record,
                         progressChecked |-> progress,
                         tone |-> tone]
            IN  The({ Applied(n5) :
                      n5 \in {IF called THEN PathFind_EscalateStrategy(n4)
                              ELSE [nav |-> n4, cues |-> <<>>]} })
        Detected(p) ==
            The({ Escalated(p.nav, p.cues, d) :
                  d \in {The({ [isOscillating |-> PathFind_DetectOscillation(p.nav),
                                isLooping |-> loop.found, loopSize |-> loop.loopSize]
                                : loop \in {PathFind_DetectLoop(p.nav)} })} })
        Progressed(n3) ==
            The({ Detected(p) :
                  p \in {IF progress THEN AutoNav_CheckProgress(n3, currentTime)
                         ELSE [nav |-> n3, cues |-> <<>>]} })
    IN  The({ Progressed([n2 EXCEPT !.strategy_frames = @ + 1]) :
              n2 \in {IF record
                      THEN PathFind_RecordPosition(nav, in.x, in.y, in.z, currentTime)
                      ELSE nav} })

\* Mutation: the backtrack timer hands over to the next strategy of the cycle.
BacktrackReset_ToWideAround(nav) ==
    [nav EXCEPT !.current_strategy = NAV_STRATEGY_WIDE_AROUND_LEFT, !.strategy_frames = 0]

\* Done backtracking, reset to direct.
BacktrackReset(nav) ==
    [nav EXCEPT !.current_strategy = NAV_STRATEGY_DIRECT, !.strategy_frames = 0]

Clamp(v, lo, hi) == IF v > hi THEN hi ELSE IF v < lo THEN lo ELSE v

\* (int)(diff * 0.15f): the product truncated toward zero.
LerpStep(diff) == CDiv(diff * 15, 100)

\* Mutation: forward motion is commanded from 2000 on.
FarEnoughToMove_From2000(targetDistSq) == targetDistSq >= 2000 * 2000

\* targetDist > 3000, on the square of the distance.
FarEnoughToMove(targetDistSq) == targetDistSq > 3000 * 3000

\* Mutation: steps are jumped as well.
AutoJump_AlsoForSteps(obs) ==
    /\ obs.forward_blocked # 0
    /\ obs.forward_distance < 2500
    /\ obs.forward_is_clearable # 0

\* Auto-jump: the last obstruction check found an obstacle ahead within 2.5 m that
\* a jump clears and that is not a step.
AutoJump(obs) ==
    /\ obs.forward_blocked # 0
    /\ obs.forward_distance < 2500
    /\ obs.forward_is_clearable # 0
    /\ obs.forward_is_jumpable = 0

\* AutoNav_Update from the door test to the arrival check.  The bearing is given
\* by in.cross100 and in.dot100, the cross and dot product of the player's forward
\* vector with the direction to the target, in hundredths.
AutoNav_Steer(in, nav, st, ps, obs) ==
    LET dx == nav.target_x - in.x
        dz == nav.target_z - in.z
        targetDistSq == dx * dx + dz * dz      \* targetDist = sqrtf(dx*dx + dz*dz)
        obstacleDistance == in.obstacleDistance
        isDoor == in.obstacleType \in {"door", "proximity door", "lift door"}
        doorAhead == isDoor /\ obstacleDistance > 0 /\ obstacleDistance < 3000
        obstacleNear == ~doorAhead /\ obstacleDistance > 0 /\ obstacleDistance < 4000
        startAvoidance == obstacleNear /\ (st.avoidanceState = 0 \/ st.avoidanceState = 3)
        side == IF in.cross100 > 10 THEN (IF in.rightClear > 2000 THEN 2 ELSE 1)
                ELSE IF in.cross100 < -10 THEN (IF in.leftClear > 2000 THEN 1 ELSE 2)
                ELSE (IF in.leftClear > in.rightClear THEN 1 ELSE 2)
        avoidance1 == IF doorAhead THEN 3 ELSE IF startAvoidance THEN side
                      ELSE st.avoidanceState
        timer1 == IF startAvoidance THEN 30 ELSE st.avoidanceTimer
        doorCue == doorAhead /\ st.doorAnnouncedThisStop = 0
        doorAnnounced1 == IF doorAhead THEN 1 ELSE IF obstacleNear THEN 0
                          ELSE st.doorAnnouncedThisStop
        turn1 == IF obstacleNear /\ avoidance1 = 1 THEN -30
                 ELSE IF obstacleNear /\ avoidance1 = 2 THEN 30 ELSE 0
        shouldStrafeLeft == obstacleNear /\ avoidance1 = 1
        shouldStrafeRight == obstacleNear /\ avoidance1 = 2
        forward1 == obstacleNear /\ (avoidance1 = 1 \/ avoidance1 = 2)
        \* the avoidance timer
        counting == timer1 > 0
        timer2 == IF counting THEN timer1 - 1 ELSE timer1
        clear == ~counting /\ (obstacleDistance = 0 \/ obstacleDistance >= 4000)
        avoidance2 == IF counting THEN (IF timer2 <= 0 THEN 0 ELSE avoidance1)
                      ELSE IF clear THEN 0 ELSE avoidance1
        doorAnnounced2 == IF clear THEN 0 ELSE doorAnnounced1
        turn2 == IF clear /\ nav.auto_rotate # 0 /\ targetDistSq > 2000 * 2000
                 THEN Clamp(in.cross100, -50, 50) ELSE turn1
        shouldMoveForward == IF clear /\ in.dot100 > 50 THEN TRUE ELSE forward1
        adjustedTurnAmount ==
            IF clear /\ ~(in.dot100 > 50) /\ in.dot100 < -30
            THEN (IF in.cross100 >= 0 THEN 70 ELSE -70) ELSE turn2
        \* rotation with smoothing
        rotate == nav.auto_rotate # 0
        smoothedTurnAmount ==
            IF rotate THEN st.smoothedTurnAmount
                               + LerpStep(adjustedTurnAmount - st.smoothedTurnAmount)
            ELSE st.smoothedTurnAmount
        ps1 == IF rotate THEN [ps EXCEPT !.EulerY = smoothedTurnAmount] ELSE ps
        \* movement
        backtracking == nav.current_strategy = NAV_STRATEGY_BACKTRACK
        moving == ~backtracking /\ nav.auto_move # 0 /\ FarEnoughToMove(targetDistSq)
        stopping == ~backtracking /\ ~moving /\ nav.auto_move # 0
        backtrackCount == st.backtrackFrames + 1
        backtrackDone == backtracking /\ backtrackCount > BACKTRACK_DURATION_FRAMES
        jump == moving /\ AutoJump(obs)
        ps2 == IF backtracking THEN
                   [ps1 EXCEPT !.Mvt_MotionIncrement = AUTONAV_BACKTRACK_SPEED,
                               !.Mvt_SideStepIncrement = 0]
               ELSE IF moving THEN
                   [ps1 EXCEPT !.Mvt_MotionIncrement =
                                   IF shouldMoveForward THEN AUTONAV_FORWARD_SPEED ELSE 0,
                               !.Mvt_SideStepIncrement =
                                   IF shouldStrafeLeft THEN -AUTONAV_STRAFE_SPEED
                                   ELSE IF shouldStrafeRight THEN AUTONAV_STRAFE_SPEED
                                   ELSE 0,
                               !.Rqst_Jump = IF jump THEN 1 ELSE @]
               ELSE IF stopping THEN
                   [ps1 EXCEPT !.Mvt_MotionIncrement = 0, !.Mvt_SideStepIncrement = 0]
               ELSE ps1
        n1 == IF backtrackDone THEN BacktrackReset(nav) ELSE nav
        arrival == AutoNav_CheckArrival(n1)
    IN  [nav |-> arrival.nav,
         st |-> [st EXCEPT !.avoidanceState = avoidance2,
                           !.avoidanceTimer = timer2,
                           !.doorAnnouncedThisStop = doorAnnounced2,
                           !.smoothedTurnAmount = smoothedTurnAmount,
                           !.backtrackFrames =
                               IF backtracking THEN (IF backtrackDone THEN 0 ELSE backtrackCount)
                               ELSE IF moving THEN 0 ELSE @],
         ps |-> ps2,
         cues |-> (IF doorCue THEN <<Cue("%s ahead. Press SPACE to open.", in.obstacleType, 0)>>
                   ELSE <<>>) \o arrival.cues,
         arrived |-> n1.target_distance < ARRIVAL_DISTANCE,
         wroteMotion |-> backtracking \/ moving \/ stopping,
         wroteTurn |-> rotate,
         wroteJump |-> jump,
         rayCasts |-> 1 + (IF startAvoidance THEN 2 ELSE 0),
         turnBias |-> adjustedTurnAmount,
         turnBefore |-> st.smoothedTurnAmount]

\* AutoNav_Update.  available is Accessibility_IsAvailable(); the result holds the
\* navigation state, the function's static locals, the player's status block and
\* the history record of the call.
AutoNav_UpdateBody(in, nav, st, ps, obs, pType, available, currentTime) ==
    IF nav.enabled = 0 \/ ~available THEN
        [nav |-> nav, st |-> st, ps |-> ps, trace |-> BaseTrace("AutoNav_Update", nav)]
    ELSE IF PlayerMissing(in) THEN
        [nav |-> nav, st |-> st, ps |-> ps, trace |-> BaseTrace("AutoNav_Update", nav)]
    ELSE
        LET frameCount == st.g_NavToneFrameCounter + 1
            refresh == frameCount >= 30
            s1 == [st EXCEPT !.g_NavToneFrameCounter = IF refresh THEN 0 ELSE frameCount]
            Result(t, s) ==
                [nav |-> s.nav, st |-> s.st, ps |-> s.ps,
                 trace |-> [BaseTrace("AutoNav_Update", nav) EXCEPT
                               !.ran = TRUE,
                               !.strategyEscalated = t.nav.current_strategy,
                               !.strategyAfter = s.nav.current_strategy,
                               !.failuresAfter = s.nav.strategy_failures,
                               !.escalations = t.escalations,
                               !.stuckTick = t.stuckTick,
                               !.stuckAtEntry = st.stuckCounter,
                               !.sampled = t.sampled,
                               !.refreshed = refresh,
                               !.progressChecked = t.progressChecked,
                               !.tone = t.tone,
                               !.arrived = s.arrived,
                               !.wroteMotion = s.wroteMotion,
                               !.wroteTurn = s.wroteTurn,
                               !.wroteJump = s.wroteJump,
                               !.rayCasts = s.rayCasts,
                               !.turnBias = s.turnBias,
                               !.turnBefore = s.turnBefore,
                               !.cues = t.cues \o s.cues]]
            Steered(t) ==
                The({ Result(t, s) : s \in {AutoNav_Steer(in, t.nav, t.st, ps, obs)} })
            Targeted(n1) ==
                IF n1.target_name = NULL THEN
                    [nav |-> n1, st |-> s1, ps |-> ps,
                     trace |-> [BaseTrace("AutoNav_Update", nav) EXCEPT !.refreshed = refresh]]
                ELSE The({ Steered(t) : t \in {AutoNav_Track(in, n1, s1, currentTime)} })
        IN  The({ Targeted(n1) :
                  n1 \in {IF refresh THEN AutoNav_FindTarget(nav, in, pType) ELSE nav} })

(***************************************************************************)
(* Tone channels (OpenAL sources)                                          *)
(***************************************************************************)
\* Pitches are in thousandths, gains, angle offsets, vertical ratios and positions
\* in hundredths.
AL_INITIAL == "AL_INITIAL"
AL_PLAYING == "AL_PLAYING"
AL_STOPPED == "AL_STOPPED"

\* An OpenAL source; cut records whether the last alSourceRewind found the source
\* playing.
ToneSource(state, pitch, gain, x) ==
    [state |-> state, pitch |-> pitch, gain |-> gain, x |-> x, cut |-> FALSE]

\* alSourcef(AL_PITCH), alSourcef(AL_GAIN), alSource3f(AL_POSITION), then
\* alSourceRewind and alSourcePlay.
ToneStart(src, pitch, gain, x) ==
    [state |-> AL_PLAYING, pitch |-> pitch, gain |-> gain, x |-> x,
     cut |-> src.state = AL_PLAYING]

GetEnemyPitchMultiplier(bhvr) ==
    IF bhvr = "I_BehaviourAlien" THEN 750
    ELSE IF bhvr = "I_BehaviourQueenAlien" THEN 600
    ELSE IF bhvr = "I_BehaviourFaceHugger" THEN 1800
    ELSE IF bhvr = "I_BehaviourPredator" THEN 1200
    ELSE IF bhvr = "I_BehaviourXenoborg" THEN 900
    ELSE IF bhvr \in {"I_BehaviourMarine", "I_BehaviourSeal"} THEN 1500
    ELSE 1000

\* The pitch RadarTone_PlayDirectional sets for an entity at the vertical ratio
\* verticalRatio.
RadarTonePitch(entityType, verticalRatio) ==
    Clamp(GetEnemyPitchMultiplier(entityType) + verticalRatio * 3, 400, 2500)

\* tone is the record of the three sources and the flags that guard them; ok is
\* whether the source can be created if it has not been yet.
RadarTone_PlayDirectional(tone, x, verticalRatio, entityType, ok) ==
    IF tone.g_RadarToneInitialized = 0 /\ ~ok THEN tone
    ELSE LET t1 == [tone EXCEPT !.g_RadarToneInitialized = 1]
         IN  IF t1.g_RadarToneSource.state = AL_PLAYING THEN t1
             ELSE [t1 EXCEPT !.g_RadarToneSource =
                      ToneStart(@, RadarTonePitch(entityType, verticalRatio), 35, x)]

PitchTonePitch(pitchAngle) ==
    1000 + CDiv(Clamp(pitchAngle, -2048, 2048) * 500, 2048)

PitchTone_Play(tone, pitchAngle, ok) ==
    IF tone.g_PitchIndicatorEnabled = 0 THEN tone
    ELSE IF tone.g_PitchToneInitialized = 0 /\ ~ok THEN tone
    ELSE LET t1 == [tone EXCEPT !.g_PitchToneInitialized = 1]
         IN  IF t1.g_PitchToneSource.state = AL_PLAYING THEN t1
             ELSE [t1 EXCEPT !.g_PitchToneSource =
                      ToneStart(@, PitchTonePitch(pitchAngle), 30, @.x)]

CenteringTone_Play(tone) ==
    IF tone.g_PitchToneInitialized = 0 THEN tone
    ELSE [tone EXCEPT !.g_PitchToneSource = ToneStart(@, 1500, 40, 0)]

\* Mutation: the alignment bonus goes to the tones far off target.
NavTonePitch_BonusOffTarget(angleOffset, verticalRatio) ==
    Clamp(1000 + (IF Abs(angleOffset) >= 30 THEN 300
                  ELSE IF Abs(angleOffset) >= 10 THEN 150 ELSE 0)
               + verticalRatio * 5,
          500, 2000)

NavTonePitch(angleOffset, verticalRatio) ==
    Clamp(1000 + (IF Abs(angleOffset) < 10 THEN 300
                  ELSE IF Abs(angleOffset) < 30 THEN 150 ELSE 0)
               + verticalRatio * 5,
          500, 2000)

NavTonePosX(angleOffset) == angleOffset * 2

NavTone_PlayDirectional(tone, angleOffset, verticalRatio, ok) ==
    IF tone.g_NavToneInitialized = 0 /\ ~ok THEN tone
    ELSE LET t1 == [tone EXCEPT !.g_NavToneInitialized = 1]
         IN  IF t1.g_NavToneSource.state = AL_PLAYING THEN t1
             ELSE [t1 EXCEPT !.g_NavToneSource =
                      ToneStart(@, NavTonePitch(angleOffset, verticalRatio), 40,
                                NavTonePosX(angleOffset))]

\* The arguments AutoNav_Update hands to NavTone_PlayDirectional: the clamped
\* cross product, pushed to one side for a target behind, and dy / dist3D.
NavToneArguments(in, nav) ==
    LET dist3D == Accessibility_GetDistance(in.x, in.y, in.z,
                                            nav.target_x, nav.target_y, nav.target_z)
    IN  [angleOffset |-> IF in.dot100 < 0 THEN (IF in.cross100 >= 0 THEN 100 ELSE -100)
                         ELSE Clamp(in.cross100, -100, 100),
         verticalRatio |-> IF dist3D > 1
                           THEN Clamp(CDiv((nav.target_y - in.y) * 100, dist3D), -100, 100)
                           ELSE 0]

(***************************************************************************)
(* The host: the player's motion, the level's entities, the ray casts       *)
(***************************************************************************)
\* Frames the player takes along one side of the square circuit, and the
\* distance covered per frame on it (squared displacement 3600 < 10000).
CircuitSideFrames == 105
CircuitSpeed == 60

\* Distance covered per frame by a pacing player (squared displacement 10000),
\* and the frames of one leg of the pacing.
PaceSpeed == 100
PaceLegFrames == 30

\* The player's position after one more frame of the walk w.walk.
MovePlayer(w) ==
    IF w.walk = "circuit" THEN
        LET side == w.phase \div CircuitSideFrames
        IN  [w EXCEPT !.phase = (w.phase + 1) % (4 * CircuitSideFrames),
                      !.x = IF side = 0 THEN @ + CircuitSpeed
                            ELSE IF side = 2 THEN @ - CircuitSpeed ELSE @,
                      !.z = IF side = 1 THEN @ + CircuitSpeed
                            ELSE IF side = 3 THEN @ - CircuitSpeed ELSE @]
    ELSE IF w.walk = "pace" THEN
        [w EXCEPT !.phase = (w.phase + 1) % (2 * PaceLegFrames),
                  !.z = IF w.phase < PaceLegFrames THEN @ - PaceSpeed ELSE @ + PaceSpeed]
    ELSE IF w.walk = "wait" THEN [w EXCEPT !.rayBefore = w.sense]
    ELSE w    \* "still"

\* What AutoNav_Update and the hotkey operations read from the host.
NavInput(w) ==
    [present |-> w.present, x |-> w.x, y |-> w.y, z |-> w.z, entities |-> w.entities,
     cross100 |-> w.sense.cross100, dot100 |-> w.sense.dot100,
     obstacleDistance |-> w.sense.obstacleDistance, obstacleType |-> w.sense.obstacleType,
     leftClear |-> w.sense.leftClear, rightClear |-> w.sense.rightClear]

\* A strategy block of ActiveStBlockList; DynPtr is whether it has a dynamics
\* block, and so a position.
Entity(bhvr, x, y, z) == [bhvr |-> bhvr, x |-> x, y |-> y, z |-> z, DynPtr |-> TRUE]

\* Ray results: nothing within range and the target straight ahead; a wall close
\* ahead with more room on the left.
SenseClear ==
    [cross100 |-> 0, dot100 |-> 100, obstacleDistance |-> 0, obstacleType |-> "wall",
     leftClear |-> 8000, rightClear |-> 8000]
SenseWall ==
    [cross100 |-> 0, dot100 |-> 100, obstacleDistance |-> 1000, obstacleType |-> "wall",
     leftClear |-> 8000, rightClear |-> 1500]

\* A player held in place by a wall, 8000 from a switch.
WorldStill ==
    [walk |-> "still", phase |-> 0, present |-> TRUE, x |-> 0, y |-> 0, z |-> 8000,
     entities |-> <<Entity("I_BehaviourBinarySwitch", 0, 0, 0)>>, sense |-> SenseWall]

\* A player sliding slowly round a square of side 6300, far from a switch.
WorldCircuit ==
    [walk |-> "circuit", phase |-> 0, present |-> TRUE, x |-> 0, y |-> 0, z |-> 0,
     entities |-> <<Entity("I_BehaviourBinarySwitch", 3000, 0, 20000)>>, sense |-> SenseClear]

\* A player pacing to a switch and away from it, across the arrival distance; an
\* item lies further off.
WorldPace ==
    [walk |-> "pace", phase |-> 0, present |-> TRUE, x |-> 0, y |-> 0, z |-> 4000,
     entities |-> <<Entity("I_BehaviourBinarySwitch", 0, 0, 0),
                    Entity("I_BehaviourInanimateObject", 0, 0, 9000)>>,
     sense |-> SenseClear]

\* A player at the origin facing a switch straight ahead with nothing in the
\* way: 2000 away, and 4000 away.
WorldNear ==
    [walk |-> "still", phase |-> 0, present |-> TRUE, x |-> 0, y |-> 0, z |-> 0,
     entities |-> <<Entity("I_BehaviourBinarySwitch", 0, 0, 2000)>>, sense |-> SenseClear]
WorldAhead ==
    [walk |-> "still", phase |-> 0, present |-> TRUE, x |-> 0, y |-> 0, z |-> 0,
     entities |-> <<Entity("I_BehaviourBinarySwitch", 0, 0, 4000)>>, sense |-> SenseClear]

\* The player of WorldCircuit with a second switch beside the third side of the
\* square: the refresh at frame 330 is the first to find it nearer than 2500.
WorldDetour ==
    [WorldCircuit EXCEPT
        !.entities = <<Entity("I_BehaviourBinarySwitch", 3000, 0, 20000),
                       Entity("I_BehaviourBinarySwitch", -2000, 0, 6300)>>]

\* A player standing 8000 from a switch with a door 2000 ahead; rayBefore is what
\* the rays returned on the frame before.
SenseDoor ==
    [cross100 |-> 0, dot100 |-> 100, obstacleDistance |-> 2000, obstacleType |-> "door",
     leftClear |-> 8000, rightClear |-> 1500]
WorldDoor ==
    [walk |-> "wait", phase |-> 0, present |-> TRUE, x |-> 0, y |-> 0, z |-> 8000,
     entities |-> <<Entity("I_BehaviourBinarySwitch", 0, 0, 0)>>, sense |-> SenseDoor,
     rayBefore |-> SenseClear]

(***************************************************************************)
(* Initial values (the static initialisers of the globals)                 *)
(***************************************************************************)

\* The tick counter reads anything when the program starts; 0 is a counter that
\* has just started (or wrapped), 1000 one that has been running for a while.
StartTicks == {0, 1000}

InitAnnouncementClock ==
    /\ g_LastCriticalAnnouncementTime = 0
    /\ g_LastHighAnnouncementTime = 0
    /\ g_LastNormalAnnouncementTime = 0
    /\ everFired = {}

InitPlayerState ==
    /\ g_LastHealth = -1
    /\ g_HealthWarningGiven = 0
    /\ g_LastWeaponSlot = -1
    /\ g_LastCloakOn = -1
    /\ g_LastVisionMode = -1
    /\ g_LastFieldChargePercent = -1

InitSettings ==
    AccessibilitySettings =
        [enabled |-> TRUE, tts_enabled |-> 1, state_announcements_enabled |-> TRUE,
         navigation_cues_enabled |-> TRUE, health_warning_threshold |-> 25]

InitObsGhost ==
    [seen |-> <<>>, spokenAt |-> [t \in AlertTypes |-> -1], gap |-> -1,
     otherBetween |-> FALSE]

InitObstruction ==
    /\ g_ObstructionState =
           [enabled |-> 1, forward_blocked |-> 0, forward_distance |-> 0,
            forward_is_jumpable |-> 0, forward_is_clearable |-> 0,
            left_distance |-> 0, right_distance |-> 0, last_announced_forward |-> 0]
    /\ obstructionStatics =
           [frameCounter |-> 0, lastAutoAlertTime |-> 0, lastAutoAlertType |-> "",
            debounceCounter |-> 0, pendingAlertType |-> ""]
    /\ obsGhost = InitObsGhost

\* AUTONAV_STATE AutoNavState = { 0, 0, 0, NAV_TARGET_INTERACTIVE, 0, 0, 0, 0, NULL };
\* the members the initialiser does not name are zero.
InitAutoNavState ==
    [enabled |-> 0, auto_rotate |-> 0, auto_move |-> 0,
     target_type |-> NAV_TARGET_INTERACTIVE,
     target_x |-> 0, target_y |-> 0, target_z |-> 0,
     target_distance |-> 0, target_name |-> NULL,
     position_history |-> [i \in 0 .. (NAV_POSITION_HISTORY_SIZE - 1) |->
                              PositionRecord(0, 0, 0, 0)],
     history_index |-> 0, history_count |-> 0,
     last_announced_distance |-> 0, closest_achieved |-> 0, last_progress_time |-> 0,
     current_strategy |-> NAV_STRATEGY_DIRECT, strategy_frames |-> 0,
     strategy_failures |-> 0,
     arrival_announced |-> 0, target_reached |-> 0]

InitNavStatics ==
    [g_NavToneFrameCounter |-> 0, positionRecordCounter |-> 0, progressCheckCounter |-> 0,
     toneCounter |-> 0, avoidanceState |-> 0, avoidanceTimer |-> 0, stuckCounter |-> 0,
     lastPlayerX |-> 0, lastPlayerZ |-> 0, doorAnnouncedThisStop |-> 0,
     smoothedTurnAmount |-> 0, backtrackFrames |-> 0]

InitPlayerStatus ==
    [Mvt_MotionIncrement |-> 0, Mvt_SideStepIncrement |-> 0, Rqst_Jump |-> 0, EulerY |-> 0]

\* No function has been called on its own yet.
NoCall == [fn |-> "none"]

\* static int g_RadarToneInitialized = 0 (and the like), g_PitchIndicatorEnabled = 1;
\* no source has been created.
\* The backends after a start in which everything came up: Accessibility_Init has
\* run and Tolk is loaded; Tolk_Load and alGenSources succeed when asked.
BackendUp ==
    [g_AccessibilityInitialized |-> 1, g_TolkInitialized |-> 1, tolkLoads |-> TRUE,
     g_RadarToneSource |-> TRUE, g_PitchToneSource |-> TRUE, g_NavToneSource |-> TRUE]

InitTone ==
    [g_RadarToneInitialized |-> 0, g_PitchToneInitialized |-> 0,
     g_NavToneInitialized |-> 0, g_PitchIndicatorEnabled |-> 1,
     g_RadarToneSource |-> ToneSource(AL_INITIAL, 1000, 100, 0),
     g_PitchToneSource |-> ToneSource(AL_INITIAL, 1000, 100, 0),
     g_NavToneSource |-> ToneSource(AL_INITIAL, 1000, 100, 0)]

\* When each tier was last handed to Announcement_RecordTime on its own (-1: never).
FiredAt(c) ==
    IF c.fn = "Announcement_RecordTime" THEN c.firedAt ELSE [p \in Priorities |-> -1]

InitNavGhost ==
    [frames |-> 0,            \* calls of AutoNav_Update so far
     presses |-> 0,           \* hotkey presses so far
     arrivalCues |-> 0,       \* arrival cues spoken since AutoNav_Toggle last set enabled
     crossings |-> 0,         \* 1 once an arrival check since then saw the target
                              \* distance below ARRIVAL_DISTANCE
     crossed |-> FALSE,       \* the last call of AutoNav_Update was the first to see it
     escalations |-> 0,       \* calls of PathFind_EscalateStrategy so far
     stuckGap |-> -1,         \* stuck ticks since the last of them (-1: not stuck throughout)
     escalationGap |-> -1,    \* ... between the last two of them
     stuckRun |-> 0,          \* consecutive stuck ticks since the stuck counter was 0
     runCalls |-> 0,          \* escalation calls during these ticks
     runStuckCalls |-> 0,     \* ... made by the stuck counter
     tick |-> 0,              \* flips at every frame of a run whose counts are not kept
     sinceCancel |-> -1,      \* calls of AutoNav_Update since AutoNav_Toggle cleared enabled
     inserted |-> <<>>]       \* the records PathFind_RecordPosition was given

\* The navigation engine as the program starts, in the level w.
InitNav(w) ==
    /\ AutoNavState = InitAutoNavState
    /\ navStatics = InitNavStatics
    /\ playerStatus = InitPlayerStatus
    /\ world = w
    /\ navTrace = BaseTrace("start", InitAutoNavState)
    /\ navGhost = InitNavGhost

vars == <<arbVars, playerStateVars, AccessibilitySettings, obstructionVars, emitted, suppressed,
          navVars, call, toneState, backend>>

(***************************************************************************)
(* The arbiter alone: the clock advances and any tier is stamped            *)
(***************************************************************************)
AdvanceTime(d, max) ==
    /\ now + d <= max
    /\ now' = now + d
    /\ emitted' = <<>>
    /\ suppressed' = <<>>
    /\ UNCHANGED <<g_LastCriticalAnnouncementTime, g_LastHighAnnouncementTime,
                   g_LastNormalAnnouncementTime, everFired, playerStateVars,
                   AccessibilitySettings, obstructionVars, navVars, call, toneState, backend>>

RecordFired(priority) ==
    /\ StoreAnnouncementClock(Announcement_RecordTime(priority, now, AnnouncementClock))
    /\ emitted' = <<>>
    /\ suppressed' = <<>>
    /\ UNCHANGED <<now, playerStateVars, AccessibilitySettings, obstructionVars, navVars, call, toneState, backend>>

ArbTick == \E d \in ArbTimeSteps : AdvanceTime(d, MaxArbTime)

ArbRecord == \E p \in Priorities : RecordFired(p)

InitArb ==
    /\ call = NoCall
    /\ toneState = InitTone
    /\ backend = BackendUp
    /\ now \in StartTicks
    /\ InitNav(WorldStill)
    /\ InitAnnouncementClock
    /\ InitPlayerState
    /\ playerType = I_Marine
    /\ InitSettings
    /\ InitObstruction
    /\ emitted = <<>>
    /\ suppressed = <<>>

NextArb == ArbTick \/ ArbRecord

SpecArb == InitArb /\ [][NextArb]_vars

(***************************************************************************)
(* The announcing handlers under the arbiter                               *)
(***************************************************************************)
\* Last value of the clock, and its step, where the handlers run.
MaxAnnTime == 1600
AnnTimeSteps == {200}

AnnTick == \E d \in AnnTimeSteps : AdvanceTime(d, MaxAnnTime)

\* The cloak and the field charge are read for a predator only.
AnnPlayerState ==
    \E in \in PlayerStateInputs :
        /\ playerType = I_Marine => (in.cloak = 0 /\ in.charge = 100)
        /\ PlayerState_Update(in)

AnnObstruction == \E in \in StepAheadInputs : Obstruction_Update(in)

\* A marine with the obstruction alerts on, or a predator who has switched them
\* off (Obstruction_Toggle).
InitAnn ==
    /\ call = NoCall
    /\ toneState = InitTone
    /\ backend = BackendUp
    /\ now = 1000
    /\ InitNav(WorldStill)
    /\ InitAnnouncementClock
    /\ InitPlayerState
    /\ InitSettings
    /\ obstructionStatics =
           [frameCounter |-> 0, lastAutoAlertTime |-> 0, lastAutoAlertType |-> "",
            debounceCounter |-> 0, pendingAlertType |-> ""]
    /\ obsGhost = InitObsGhost
    /\ \E e \in {0, 1} :
           /\ playerType = IF e = 1 THEN I_Marine ELSE I_Predator
           /\ g_ObstructionState =
                  [enabled |-> e, forward_blocked |-> 0, forward_distance |-> 0,
                   forward_is_jumpable |-> 0, forward_is_clearable |-> 0,
                   left_distance |-> 0, right_distance |-> 0, last_announced_forward |-> 0]
    /\ emitted = <<>>
    /\ suppressed = <<>>

NextAnn == AnnTick \/ AnnPlayerState \/ AnnObstruction

SpecAnn == InitAnn /\ [][NextAnn]_vars

(***************************************************************************)
(* The navigation engine driven frame by frame                             *)
(***************************************************************************)
\* Milliseconds of the clock per frame.
FrameMs == 16

\* Frames run, hotkey presses made, and the frames at which a hotkey may be pressed.
MaxFrames == 366
MaxKeyPresses == 3
KeyFrames == {0, 1, 100}

ArrivalTexts ==
    {"Arrived at %s. Press SPACE to interact.", "Item nearby. Walk forward to collect.",
     "Target reached."}

RECURSIVE ArrivalCueCount(_)
ArrivalCueCount(cues) ==
    IF cues = <<>> THEN 0
    ELSE (IF Head(cues).text \in ArrivalTexts THEN 1 ELSE 0) + ArrivalCueCount(Tail(cues))

\* The run's counts after a call of AutoNav_Update that left the record tr.
GhostAfterUpdate(g, tr) ==
    LET calls == Len(tr.escalations)
        stuckCalls == IF calls > 0 /\ tr.escalations[1].cause = "stuck" THEN 1 ELSE 0
        running == tr.stuckTick /\ g.stuckRun > 0 /\ g.stuckRun < 91
        starting == tr.stuckTick /\ ~running /\ tr.stuckAtEntry = 0
        crossing == tr.ran /\ tr.arrived /\ g.crossings = 0
    IN  [g EXCEPT
            !.frames = @ + 1,
            !.arrivalCues = @ + ArrivalCueCount(tr.cues),
            !.crossings = IF crossing THEN 1 ELSE @,
            !.crossed = crossing,
            !.escalations = @ + calls,
            !.stuckGap = IF calls > 0 THEN 0
                         ELSE IF tr.stuckTick /\ @ >= 0 THEN @ + 1 ELSE -1,
            !.escalationGap = IF calls > 0 /\ tr.stuckTick /\ g.stuckGap >= 0
                              THEN g.stuckGap + 1 ELSE -1,
            !.sinceCancel = IF @ >= 0 THEN @ + 1 ELSE -1,
            !.stuckRun = IF running THEN @ + 1 ELSE IF starting THEN 1 ELSE 0,
            !.runCalls = IF running THEN @ + calls ELSE IF starting THEN calls ELSE 0,
            !.runStuckCalls = IF running THEN @ + stuckCalls
                              ELSE IF starting THEN stuckCalls ELSE 0]

\* The result r = [nav, cues] of an operation called between frames becomes the
\* state.
KeyPressed(op, r) ==
    /\ navGhost.frames \in KeyFrames
    /\ navGhost.presses < MaxKeyPresses
    /\ AutoNavState' = r.nav
    /\ navTrace' = [BaseTrace(op, AutoNavState) EXCEPT
                       !.strategyEscalated = r.nav.current_strategy,
                       !.strategyAfter = r.nav.current_strategy,
                       !.failuresAfter = r.nav.strategy_failures,
                       !.cues = r.cues]
    /\ navGhost' =
           LET switchedOn == op = "AutoNav_Toggle" /\ r.nav.enabled = 1
           IN  [navGhost EXCEPT
                   !.presses = @ + 1,
                   !.arrivalCues = IF switchedOn THEN 0 ELSE @,
                   !.crossings = IF switchedOn THEN 0 ELSE @,
                   !.crossed = FALSE,
                   !.sinceCancel = IF op # "AutoNav_Toggle" THEN @
                                   ELSE IF r.nav.enabled = 0 THEN 0 ELSE -1]
    /\ UNCHANGED <<arbVars, playerStateVars, AccessibilitySettings,
                   obstructionVars, emitted, suppressed, navStatics, playerStatus, world,
                   call, toneState, backend>>

KeyToggle ==
    \E in \in {NavInput(world)} :
    \E r \in {AutoNav_Toggle(AutoNavState, in, playerType)} :
        KeyPressed("AutoNav_Toggle", r)

KeyToggleRotation ==
    \E r \in {AutoNav_ToggleRotation(AutoNavState)} : KeyPressed("AutoNav_ToggleRotation", r)

KeyToggleMovement ==
    \E r \in {AutoNav_ToggleMovement(AutoNavState)} : KeyPressed("AutoNav_ToggleMovement", r)

KeyCycleTargetType ==
    \E in \in {NavInput(world)} :
    \E r \in {AutoNav_CycleTargetType(AutoNavState, in, playerType)} :
        KeyPressed("AutoNav_CycleTargetType", r)

\* The host initialises the navigation engine again.
HostInit ==
    \E r \in {AutoNav_Init(AutoNavState)} : KeyPressed("AutoNav_Init", r)

\* One frame: the host moves the player and calls AutoNav_Update.  The clock
\* advances with the frame if advance; the run's counts are kept if counted.
UpdateCalled(advance, counted) ==
    /\ \E w \in {MovePlayer(world)} :
       \E in \in {NavInput(w)} :
       \E r \in {AutoNav_UpdateBody(in, AutoNavState, navStatics, playerStatus,
                                    g_ObstructionState, playerType,
                                    Accessibility_IsAvailable, now)} :
           /\ world' = w
           /\ AutoNavState' = r.nav
           /\ navStatics' = r.st
           /\ playerStatus' = r.ps
           /\ navTrace' = r.trace
           /\ toneState' = IF r.trace.tone
                      THEN LET a == NavToneArguments(in, r.nav)
                           IN  NavTone_PlayDirectional(toneState, a.angleOffset,
                                                       a.verticalRatio,
                                                       backend.g_NavToneSource)
                      ELSE toneState
           /\ navGhost' = IF counted THEN GhostAfterUpdate(navGhost, r.trace)
                          ELSE [navGhost EXCEPT !.tick = 1 - @]
    /\ now' = IF advance THEN now + FrameMs ELSE now
    /\ UNCHANGED <<g_LastCriticalAnnouncementTime, g_LastHighAnnouncementTime,
                   g_LastNormalAnnouncementTime, everFired, playerStateVars,
                   AccessibilitySettings, obstructionVars, emitted, suppressed, call,
                   backend>>

NavFrame ==
    /\ navGhost.frames < MaxFrames
    /\ UpdateCalled(TRUE, TRUE)

InitHost ==
    /\ call = NoCall
    /\ toneState = InitTone
    /\ backend = BackendUp
    /\ now = 1000
    /\ InitAnnouncementClock
    /\ InitPlayerState
    /\ playerType = I_Marine
    /\ InitSettings
    /\ InitObstruction
    /\ emitted = <<>>
    /\ suppressed = <<>>

InitNavRun ==
    /\ InitHost
    /\ \E w \in {WorldStill, WorldCircuit, WorldPace} : InitNav(w)

NextNav ==
    \/ NavFrame
    \/ KeyToggle
    \/ KeyToggleRotation
    \/ KeyToggleMovement
    \/ KeyCycleTargetType
    \/ HostInit

SpecNav == InitNavRun /\ [][NextNav]_vars

(***************************************************************************)
(* The position history on its own                                         *)
(***************************************************************************)
\* Calls of PathFind_RecordPosition made.
MaxInserts == 70

\* The host moves the player and the position is recorded.
HistRecord ==
    /\ Len(navGhost.inserted) < MaxInserts
    /\ \E w \in {MovePlayer(world)} :
           /\ world' = w
           /\ AutoNavState' = PathFind_RecordPosition(AutoNavState, w.x, w.y, w.z, now)
           /\ navGhost' = [navGhost EXCEPT
                              !.inserted = Append(@, PositionRecord(w.x, w.y, w.z, now))]
    /\ now' = now + FrameMs
    /\ UNCHANGED <<g_LastCriticalAnnouncementTime, g_LastHighAnnouncementTime,
                   g_LastNormalAnnouncementTime, everFired, playerStateVars,
                   AccessibilitySettings, obstructionVars, emitted, suppressed,
                   navStatics, playerStatus, navTrace, call, toneState, backend>>

NextHist == HistRecord

SpecHist == InitNavRun /\ [][NextHist]_vars

(***************************************************************************)
(* A player who stays stuck, under fair ticking                            *)
(***************************************************************************)
\* The clock stops advancing here; it only feeds the timestamps of the position
\* records and the speech of AutoNav_CheckProgress.
MaxStuckTime == 2600

\* The player stands in front of a switch and uses the navigation keys.
InitAhead ==
    /\ InitHost
    /\ \E w \in {WorldNear, WorldAhead} : InitNav(w)

NextAhead ==
    \/ NavFrame
    \/ KeyToggle
    \/ KeyToggleRotation
    \/ KeyToggleMovement

SpecAhead == InitAhead /\ [][NextAhead]_vars

InitStuck ==
    /\ InitHost
    /\ InitNav(WorldCircuit)

\* The player switches auto-navigation on, then auto-movement.
StuckToggle ==
    /\ navGhost.presses = 0
    /\ KeyToggle

StuckToggleMovement ==
    /\ navGhost.presses = 1
    /\ KeyToggleMovement

\* The frames run for as long as auto-movement is on.
StuckTick ==
    /\ AutoNavState.auto_move = 1
    /\ UpdateCalled(now + FrameMs <= MaxStuckTime, FALSE)

NextStuck ==
    \/ StuckToggle
    \/ StuckToggleMovement
    \/ StuckTick

\* The game loop calls AutoNav_Update on every frame.  StuckTick is the only step
\* that flips navGhost.tick, so this is weak fairness of StuckTick, stated on the
\* frame mark alone.
FrameRuns ==
    /\ AutoNavState.auto_move = 1
    /\ navGhost' = [navGhost EXCEPT !.tick = 1 - @]

SpecStuck == InitStuck /\ [][NextStuck]_vars /\ WF_navGhost(FrameRuns)

\* The give-up: a player held in place by a wall switches auto-navigation and
\* auto-movement on, and switches auto-movement on again after the engine has
\* handed back the controls.
MaxGiveUpTime == 5000

InitGiveUp ==
    /\ InitHost
    /\ InitNav(WorldStill)

GiveUpTick ==
    /\ AutoNavState.auto_move = 1
    /\ now < MaxGiveUpTime
    /\ UpdateCalled(TRUE, FALSE)

GiveUpToggleMovement ==
    /\ navGhost.presses = 2
    /\ AutoNavState.strategy_failures >= 2
    /\ KeyToggleMovement

NextGiveUp ==
    \/ StuckToggle
    \/ StuckToggleMovement
    \/ GiveUpTick
    \/ GiveUpToggleMovement

SpecGiveUp == InitGiveUp /\ [][NextGiveUp]_vars

(***************************************************************************)
(* The navigation in front of a door                                       *)
(***************************************************************************)
MaxDoorFrames == 200

\* What the ray along the bearing may return as the door moves or the measured
\* distance fluctuates, and the frames before which it changes.
DoorSenses ==
    { [SenseDoor EXCEPT !.obstacleDistance = d] : d \in {2000, 2900, 3100} }
        \cup {SenseWall, SenseClear}
DoorShiftFrames == {3, 4, 5}

InitDoor ==
    /\ InitHost
    /\ InitNav(WorldDoor)

DoorShifts ==
    /\ navGhost.frames \in DoorShiftFrames
    /\ \E sense \in DoorSenses \ {world.sense} :
           world' = [world EXCEPT !.sense = sense]
    /\ UNCHANGED <<arbVars, playerStateVars, AccessibilitySettings, obstructionVars,
                   emitted, suppressed, AutoNavState, navStatics, playerStatus, navTrace,
                   navGhost, call, toneState, backend>>

DoorFrame ==
    /\ navGhost.presses = 2
    /\ navGhost.frames < MaxDoorFrames
    /\ UpdateCalled(TRUE, TRUE)

NextDoor ==
    \/ StuckToggle
    \/ StuckToggleMovement
    \/ DoorShifts
    \/ DoorFrame

SpecDoor == InitDoor /\ [][NextDoor]_vars

(***************************************************************************)
(* Arrival while the strategies escalate                                   *)
(***************************************************************************)
MaxDetourFrames == 335

InitDetour ==
    /\ InitHost
    /\ InitNav(WorldDetour)

DetourFrame ==
    /\ navGhost.presses = 2
    /\ navGhost.frames < MaxDetourFrames
    /\ UpdateCalled(TRUE, TRUE)

NextDetour ==
    \/ StuckToggle
    \/ StuckToggleMovement
    \/ DetourFrame

SpecDetour == InitDetour /\ [][NextDetour]_vars

(***************************************************************************)
(* The progress monitor after a start late in the tick count               *)
(***************************************************************************)
\* GetTickCount() as the navigation is switched on, and the frames run.
ProgressStartTime == 10000
MaxProgressFrames == 125

InitProgress ==
    /\ call = NoCall
    /\ toneState = InitTone
    /\ backend = BackendUp
    /\ now = ProgressStartTime
    /\ InitAnnouncementClock
    /\ InitPlayerState
    /\ playerType = I_Marine
    /\ InitSettings
    /\ InitObstruction
    /\ emitted = <<>>
    /\ suppressed = <<>>
    /\ InitNav(WorldAhead)

ProgressFrame ==
    /\ navGhost.presses = 2
    /\ navGhost.frames < MaxProgressFrames
    /\ UpdateCalled(TRUE, TRUE)

NextProgress ==
    \/ StuckToggle
    \/ StuckToggleMovement
    \/ ProgressFrame

SpecProgress == InitProgress /\ [][NextProgress]_vars

(***************************************************************************)
(* The navigation while the player takes damage                            *)
(***************************************************************************)
MaxFilterFrames == 25

InitFilter ==
    /\ InitHost
    /\ \E w \in {WorldNear, WorldAhead} : InitNav(w)

\* PlayerState_Update reads the health: a drop of more than 5 is announced as
\* CRITICAL.
FilterPlayerState ==
    \E health \in HealthValues :
        PlayerState_Update([health |-> health, weapon |-> 0, cloak |-> 0, vision |-> 0,
                            charge |-> 100])

FilterFrame ==
    /\ navGhost.frames < MaxFilterFrames
    /\ UpdateCalled(TRUE, TRUE)

NextFilter ==
    \/ FilterPlayerState
    \/ FilterFrame
    \/ KeyToggle
    \/ KeyToggleMovement

SpecFilter == InitFilter /\ [][NextFilter]_vars

(***************************************************************************)
(* The obstruction checks with whatever lies ahead, and damage events      *)
(***************************************************************************)
MaxObsTime == 4100
ObsTimeSteps == {1600, 3100}

\* What lies ahead of the player: a step, a low obstacle or a wall close ahead, or
\* nothing within range.
AheadInputs ==
    { in \in ObstructionInputs :
         \/ in.forwardDist = 1000
         \/ in.forwardDist = 0 /\ in.hitY = -800 }

\* Only a check reads the clock and the cooldown timestamps, so the clock and the
\* damage events are followed on the frame before a check alone.
BeforeCheck == obstructionStatics.frameCounter = OBSTRUCTION_CHECK_INTERVAL - 1

ObsTick == BeforeCheck /\ \E d \in ObsTimeSteps : AdvanceTime(d, MaxObsTime)

\* A frame: Obstruction_Update is called with what the rays find.
ObsFrame == \E in \in AheadInputs : Obstruction_Update(in)

\* The player is hurt, once: the damage announcement stamps the CRITICAL tier.
ObsDamage ==
    /\ BeforeCheck
    /\ ANNOUNCE_PRIORITY_CRITICAL \notin everFired
    /\ RecordFired(ANNOUNCE_PRIORITY_CRITICAL)

InitObs ==
    /\ InitHost
    /\ InitNav(WorldStill)

NextObs == ObsTick \/ ObsFrame \/ ObsDamage

SpecObs == InitObs /\ [][NextObs]_vars

(***************************************************************************)
(* Functions called on their own                                           *)
(***************************************************************************)
\* Heights of the ray's hit point, HeightStep apart up to MaxHeight either way, and
\* heights of the ray's origin.
MaxHeight == 1500
HeightStep == 50
Heights == { k * HeightStep : k \in -(MaxHeight \div HeightStep) .. (MaxHeight \div HeightStep) }
OriginHeights == {0, -800}

\* The call c is made; nothing of the program's state changes.
Called(c) ==
    /\ call' = c
    /\ UNCHANGED <<arbVars, playerStateVars, AccessibilitySettings, obstructionVars,
                   emitted, suppressed, navVars, toneState, backend>>

CallAnalyzeObstruction ==
    \E playerY \in OriginHeights, hitY \in Heights :
        Called([playerY |-> playerY, hitY |-> hitY, fn |-> "AnalyzeObstruction",
                result |-> AnalyzeObstruction(playerY, hitY)])

\* Announcement_RecordTime is called for a tier, and the call is kept with the
\* timestamps as they were before it.
MaxRecTime == 2200
RecTimeSteps == {300}

RecTick == \E d \in RecTimeSteps : AdvanceTime(d, MaxRecTime)

RecCall ==
    \E priority \in Priorities :
        /\ StoreAnnouncementClock(Announcement_RecordTime(priority, now, AnnouncementClock))
        /\ call' = [fn |-> "Announcement_RecordTime", priority |-> priority,
                    currentTime |-> now, before |-> AnnouncementClock,
                    firedAt |-> [FiredAt(call) EXCEPT ![priority] = now]]
        /\ emitted' = <<>>
        /\ suppressed' = <<>>
        /\ UNCHANGED <<now, playerStateVars, AccessibilitySettings, obstructionVars,
                       navVars, toneState, backend>>

InitRec ==
    /\ InitHost
    /\ InitNav(WorldStill)

NextRec == RecTick \/ RecCall

SpecRec == InitRec /\ [][NextRec]_vars

InitCall ==
    /\ InitHost
    /\ InitNav(WorldStill)

\* The two directional tones are asked for over a grid of offsets and vertical
\* ratios in hundredths, and the source they set up is kept; the channels
\* themselves stay silent here.
OffsetStep == 5
RatioStep == 10
Offsets == { a \in -100..100 : a % OffsetStep = 0 }
Ratios == { v \in -100..100 : v % RatioStep = 0 }
EntityTypes == {"I_BehaviourAlien", "I_BehaviourQueenAlien", "I_BehaviourFaceHugger",
                "I_BehaviourPredator", "I_BehaviourXenoborg", "I_BehaviourMarine",
                "I_BehaviourSeal", "I_BehaviourInanimateObject"}

CallNavTone ==
    \E angleOffset \in Offsets, verticalRatio \in Ratios :
        Called([verticalRatio |-> verticalRatio, angleOffset |-> angleOffset,
                fn |-> "NavTone_PlayDirectional",
                result |-> NavTone_PlayDirectional(toneState, angleOffset, verticalRatio,
                                                   TRUE).g_NavToneSource])

CallRadarTone ==
    \E entityType \in EntityTypes, verticalRatio \in Ratios :
        Called([entityType |-> entityType, verticalRatio |-> verticalRatio,
                fn |-> "RadarTone_PlayDirectional",
                result |-> RadarTone_PlayDirectional(toneState, 0, verticalRatio,
                                                     entityType, TRUE).g_RadarToneSource])

\* AutoNav_FindTarget is called with the player at the origin and up to
\* MaxEntities strategy blocks in ActiveStBlockList, one of them possibly
\* without a dynamics block.
MaxEntities == 3
TargetBehaviours == {"I_BehaviourBinarySwitch", "I_BehaviourProximityDoor",
                     "I_BehaviourLift", "I_BehaviourAlien"}
TargetDistances == {3000, 4500, 5000}
CandidateEntities ==
    { Entity(bhvr, 0, 0, z) : bhvr \in TargetBehaviours, z \in TargetDistances }
        \cup {[Entity("I_BehaviourBinarySwitch", 0, 0, 1000) EXCEPT !.DynPtr = FALSE]}
EntityLists ==
    UNION { [1..n -> CandidateEntities] : n \in 0..MaxEntities }

\* The hosts AutoNav_FindTarget can be called in: any of the lists, a player or
\* none, either of two species, a category chosen and a target held from before.
InitFind ==
    /\ call = NoCall
    /\ toneState = InitTone
    /\ backend = BackendUp
    /\ now = 1000
    /\ InitAnnouncementClock
    /\ InitPlayerState
    /\ playerType \in {I_Marine, I_Alien}
    /\ InitSettings
    /\ InitObstruction
    /\ emitted = <<>>
    /\ suppressed = <<>>
    /\ \E entities \in EntityLists, present \in BOOLEAN :
           world = [WorldStill EXCEPT !.present = present, !.z = 0,
                                      !.entities = entities]
    /\ \E targetType \in {NAV_TARGET_INTERACTIVE, NAV_TARGET_NPC} :
           AutoNavState = [InitAutoNavState EXCEPT !.target_type = targetType,
                                                   !.target_name = "switch",
                                                   !.target_distance = 8000]
    /\ navStatics = InitNavStatics
    /\ playerStatus = InitPlayerStatus
    /\ navTrace = BaseTrace("start", InitAutoNavState)
    /\ navGhost = InitNavGhost

FindTargetCalled ==
    /\ AutoNavState' = AutoNav_FindTarget(AutoNavState, NavInput(world), playerType)
    /\ call' = [fn |-> "AutoNav_FindTarget", nav |-> AutoNavState]
    /\ UNCHANGED <<arbVars, playerStateVars, AccessibilitySettings, obstructionVars,
                   emitted, suppressed, navStatics, playerStatus, world, navTrace,
                   navGhost, toneState, backend>>

NextFind == FindTargetCalled

SpecFind == InitFind /\ [][NextFind]_vars

(***************************************************************************)
(* The player is lost: the player's strategy block goes away while the     *)
(* navigation and the obstruction checks are running, and the frames go on.*)
(***************************************************************************)
MaxLostFrames == 40
LostFrames == {0, 5, 25}

LostFrame ==
    /\ navGhost.frames < MaxLostFrames
    /\ UpdateCalled(TRUE, TRUE)

\* Obstruction_Update is called while the player is there, before the navigation
\* is switched on: a wall 1000 ahead.
LostObstructionFrame ==
    /\ navGhost.frames = 0
    /\ navGhost.presses = 0
    /\ \E in \in { i \in AheadInputs : i.forwardDist = 1000 /\ i.hitY = -800 } :
           Obstruction_Update(in)

\* Obstruction_Update is called and returns at one of its first two tests.
Obstruction_UpdateReturns ==
    /\ call.fn # "Obstruction_Update"
    /\ \/ g_ObstructionState.enabled = 0
       \/ ~Accessibility_IsAvailable
       \/ ~world.present
    /\ call' = [fn |-> "Obstruction_Update", nav |-> AutoNavState]
    /\ UNCHANGED <<arbVars, playerStateVars, AccessibilitySettings, obstructionVars,
                   emitted, suppressed, navVars, toneState, backend>>

\* AutoNav_FindTarget is called with the player gone.
LostFindTarget ==
    /\ ~world.present
    /\ call.fn # "AutoNav_FindTarget"
    /\ FindTargetCalled

PlayerLost ==
    /\ world.present
    /\ navGhost.frames \in LostFrames
    /\ world' = [world EXCEPT !.present = FALSE]
    /\ UNCHANGED <<arbVars, playerStateVars, AccessibilitySettings, obstructionVars,
                   emitted, suppressed, AutoNavState, navStatics, playerStatus,
                   navTrace, navGhost, call, toneState, backend>>

InitLost ==
    /\ InitHost
    /\ InitNav(WorldAhead)

NextLost ==
    \/ LostFrame
    \/ LostObstructionFrame
    \/ Obstruction_UpdateReturns
    \/ LostFindTarget
    \/ KeyToggle
    \/ KeyToggleMovement
    \/ PlayerLost

SpecLost == InitLost /\ [][NextLost]_vars

NextCall ==
    \/ CallAnalyzeObstruction
    \/ CallNavTone
    \/ CallRadarTone

SpecCall == InitCall /\ [][NextCall]_vars

(***************************************************************************)
(* The tone channels in use: the four play functions are called in any     *)
(* order, a sounding tone ends when its buffer has been played, and the    *)
(* pitch indicator is switched on and off.                                 *)
(***************************************************************************)
ToneOffsets == {-100, 0, 20}
ToneRatios == {-100, 0}
TonePitchAngles == {-2048, 0, 1024}
ToneEntityTypes == {"I_BehaviourAlien", "I_BehaviourMarine"}
ToneChannels == {"g_RadarToneSource", "g_PitchToneSource", "g_NavToneSource"}

ToneStep(t) ==
    /\ toneState' = t
    /\ UNCHANGED <<arbVars, playerStateVars, AccessibilitySettings, obstructionVars,
                   emitted, suppressed, navVars, call, backend>>

PlayRadarTone ==
    \E x \in ToneOffsets, verticalRatio \in ToneRatios,
       entityType \in ToneEntityTypes, ok \in BOOLEAN :
        ToneStep(RadarTone_PlayDirectional(toneState, x, verticalRatio, entityType, ok))

PlayPitchTone ==
    \E pitchAngle \in TonePitchAngles, ok \in BOOLEAN :
        ToneStep(PitchTone_Play(toneState, pitchAngle, ok))

PlayCenteringTone == ToneStep(CenteringTone_Play(toneState))

PlayNavTone ==
    \E angleOffset \in ToneOffsets, verticalRatio \in ToneRatios, ok \in BOOLEAN :
        ToneStep(NavTone_PlayDirectional(toneState, angleOffset, verticalRatio, ok))

\* The buffer of a sounding source has been played to its end.
ToneEnds ==
    \E ch \in ToneChannels :
        /\ toneState[ch].state = AL_PLAYING
        /\ ToneStep([toneState EXCEPT ![ch].state = AL_STOPPED])

PitchIndicator_Toggle ==
    ToneStep([toneState EXCEPT !.g_PitchIndicatorEnabled = 1 - @])

InitToneRun ==
    /\ InitHost
    /\ InitNav(WorldStill)

NextTone ==
    \/ PlayRadarTone
    \/ PlayPitchTone
    \/ PlayCenteringTone
    \/ PlayNavTone
    \/ ToneEnds
    \/ PitchIndicator_Toggle

SpecTone == InitToneRun /\ [][NextTone]_vars

(***************************************************************************)
(* The backends: the engine starts with Tolk and the tone sources coming   *)
(* up or not, and the navigation and the tones are used.                   *)
(***************************************************************************)
MaxBackendFrames == 25

\* What Tolk_Output is given of the cues handed to TTS_Speak.
TTS_SpeakInternal(cues) ==
    IF backend.g_TolkInitialized = 0 \/ AccessibilitySettings.tts_enabled = 0 THEN <<>>
    ELSE cues

\* Accessibility_Init, not yet run: Tolk is loaded if the host lets it, speech is
\* put off if not, and the engine is marked initialised either way.
Accessibility_Init ==
    /\ backend.g_AccessibilityInitialized = 0
    /\ backend' = [backend EXCEPT !.g_TolkInitialized = IF backend.tolkLoads THEN 1 ELSE @,
                                  !.g_AccessibilityInitialized = 1]
    /\ AccessibilitySettings' =
           [AccessibilitySettings EXCEPT !.tts_enabled = IF backend.tolkLoads THEN @ ELSE 0]
    /\ call' = [fn |-> "Accessibility_Init", result |-> 1]
    /\ UNCHANGED <<arbVars, playerStateVars, obstructionVars, emitted, suppressed,
                   navVars, toneState>>

BackendFrame ==
    /\ navGhost.frames < MaxBackendFrames
    /\ UpdateCalled(TRUE, TRUE)

\* AudioRadar_Update and PitchIndicator_Update reach their tones.
BackendRadarTone ==
    /\ Accessibility_IsAvailable
    /\ ToneStep(RadarTone_PlayDirectional(toneState, 100, 0, "I_BehaviourAlien",
                                          backend.g_RadarToneSource))

BackendPitchTone ==
    /\ Accessibility_IsAvailable
    /\ ToneStep(PitchTone_Play(toneState, 1024, backend.g_PitchToneSource))

InitBackend ==
    /\ call = NoCall
    /\ toneState = InitTone
    /\ \E tolkLoads \in BOOLEAN, failing \in ToneChannels \cup {"none"} :
           backend = [g_AccessibilityInitialized |-> 0, g_TolkInitialized |-> 0,
                      tolkLoads |-> tolkLoads,
                      g_RadarToneSource |-> failing # "g_RadarToneSource",
                      g_PitchToneSource |-> failing # "g_PitchToneSource",
                      g_NavToneSource |-> failing # "g_NavToneSource"]
    /\ now = 1000
    /\ InitAnnouncementClock
    /\ InitPlayerState
    /\ playerType = I_Marine
    /\ InitSettings
    /\ InitObstruction
    /\ emitted = <<>>
    /\ suppressed = <<>>
    /\ InitNav(WorldAhead)

NextBackend ==
    \/ Accessibility_Init
    \/ BackendFrame
    \/ BackendRadarTone
    \/ BackendPitchTone
    \/ ToneEnds
    \/ KeyToggle
    \/ KeyToggleMovement

SpecBackend == InitBackend /\ [][NextBackend]_vars

(***************************************************************************)
(* Claims about the arbiter                                                *)
(***************************************************************************)
Cooldown(tier) ==
    IF tier = ANNOUNCE_PRIORITY_CRITICAL THEN COOLDOWN_AFTER_CRITICAL_MS
    ELSE IF tier = ANNOUNCE_PRIORITY_HIGH THEN COOLDOWN_AFTER_HIGH_MS
    ELSE COOLDOWN_BETWEEN_SAME_MS

LastFired(c, tier) ==
    IF tier = ANNOUNCE_PRIORITY_CRITICAL THEN c.crit
    ELSE IF tier = ANNOUNCE_PRIORITY_HIGH THEN c.high
    ELSE c.norm

\* Some tier strictly above `tier` was stamped, and at time t its cooldown window
\* is still open.
HigherTierInCooldown(tier, t, c) ==
    \E h \in Priorities :
        /\ h < tier
        /\ h \in c.fired
        /\ t - LastFired(c, h) < Cooldown(h)

\* C1: at every time and after any sequence of RecordFired calls, IsAllowed(tier)
\* is false exactly when a strictly higher tier fired within its cooldown window
\* (600 ms after CRITICAL, 400 ms after HIGH, 200 ms after NORMAL), and CRITICAL
\* is always allowed.
C1_AllowedIffNoHigherTierInCooldown ==
    \A p \in Priorities :
        /\ Announcement_IsAllowed(p, now, AnnouncementClock)
               <=> ~HigherTierInCooldown(p, now, AnnouncementClock)
        /\ p = ANNOUNCE_PRIORITY_CRITICAL => Announcement_IsAllowed(p, now, AnnouncementClock)

C14_HighRefusedFor600AfterCritical ==
    LET T == FiredAt(call)[ANNOUNCE_PRIORITY_CRITICAL]
        allowed == Announcement_IsAllowed(ANNOUNCE_PRIORITY_HIGH, now, AnnouncementClock)
    IN  T # -1 =>
            /\ (T < now /\ now < T + COOLDOWN_AFTER_CRITICAL_MS) => ~allowed
            /\ now >= T + COOLDOWN_AFTER_CRITICAL_MS => allowed

\* Exactly 600 ms have passed since a CRITICAL event that other events followed.
C14_Witness ==
    /\ FiredAt(call)[ANNOUNCE_PRIORITY_CRITICAL] # -1
    /\ now = FiredAt(call)[ANNOUNCE_PRIORITY_CRITICAL] + COOLDOWN_AFTER_CRITICAL_MS
    /\ FiredAt(call)[ANNOUNCE_PRIORITY_HIGH] > FiredAt(call)[ANNOUNCE_PRIORITY_CRITICAL]

\* C15: RecordFired(tier) sets that tier's timestamp to the current time and leaves
\* the other tiers' timestamps as they were; RecordFired(LOW) changes no timestamp,
\* so that IsAllowed answers for every tier as it did before the LOW event.
C15_RecordStampsOwnTierOnly ==
    call.fn = "Announcement_RecordTime" =>
        /\ \A p \in Priorities \ {ANNOUNCE_PRIORITY_LOW} :
               LastFired(AnnouncementClock, p) =
                   IF p = call.priority THEN call.currentTime ELSE LastFired(call.before, p)
        /\ call.priority = ANNOUNCE_PRIORITY_LOW =>
               \A p \in Priorities :
                   Announcement_IsAllowed(p, call.currentTime, AnnouncementClock)
                       <=> Announcement_IsAllowed(p, call.currentTime, call.before)

\* A LOW event has been recorded while the NORMAL tier's window was open.
C15_Witness ==
    /\ call.fn = "Announcement_RecordTime"
    /\ call.priority = ANNOUNCE_PRIORITY_LOW
    /\ ANNOUNCE_PRIORITY_NORMAL \in everFired
    /\ call.currentTime - g_LastNormalAnnouncementTime < COOLDOWN_BETWEEN_SAME_MS

(***************************************************************************)
(* Claims about strategy escalation                                        *)
(***************************************************************************)
StrategyOrder ==
    <<NAV_STRATEGY_DIRECT, NAV_STRATEGY_WALL_FOLLOW_LEFT, NAV_STRATEGY_WALL_FOLLOW_RIGHT,
      NAV_STRATEGY_BACKTRACK, NAV_STRATEGY_WIDE_AROUND_LEFT, NAV_STRATEGY_WIDE_AROUND_RIGHT>>

\* from -> to is the i-th edge of the escalation cycle.
CycleEdge(i, from, to) == from = StrategyOrder[i] /\ to = StrategyOrder[(i % 6) + 1]

\* C2: every call of PathFind_EscalateStrategy moves current_strategy one step along
\* DIRECT, WALL_FOLLOW_LEFT, WALL_FOLLOW_RIGHT, BACKTRACK, WIDE_AROUND_LEFT,
\* WIDE_AROUND_RIGHT, DIRECT; strategy_failures grows by one on the step back to
\* DIRECT and is unchanged on the others; when it has reached 2 on that step,
\* auto_move is off and the strategy is DIRECT.
C2_EscalationFollowsOrder ==
    \A k \in 1 .. Len(navTrace.escalations) :
        LET e == navTrace.escalations[k]
        IN  \E i \in 1 .. 6 :
                /\ CycleEdge(i, e.from, e.to)
                /\ e.failuresAfter = e.failuresBefore + (IF i = 6 THEN 1 ELSE 0)
                /\ (i = 6 /\ e.failuresAfter >= 2) =>
                       (e.auto_move = 0 /\ e.to = NAV_STRATEGY_DIRECT)

\* The second completed cycle: WIDE_AROUND_RIGHT escalates with one failure on record.
C2_Witness ==
    \E k \in 1 .. Len(navTrace.escalations) :
        /\ navTrace.escalations[k].from = NAV_STRATEGY_WIDE_AROUND_RIGHT
        /\ navTrace.escalations[k].failuresAfter = 2
        /\ AutoNavState.auto_move = 0

\* C3: once auto-movement is on with a target selected, and the player stays stuck
\* without reaching the target, auto-movement is eventually switched off.
C3_StuckEscalationTerminates ==
    (AutoNavState.enabled = 1 /\ AutoNavState.auto_move = 1
        /\ AutoNavState.target_name # NULL)
    ~> (AutoNavState.auto_move = 0)

\* C4: 90 consecutive stuck ticks, counted from a stuck counter of 0, have made
\* exactly one call of PathFind_EscalateStrategy.
C4_NinetyStuckTicksEscalateOnce ==
    navGhost.stuckRun = 90 => navGhost.runCalls = 1

\* C5: while the player stays stuck, two calls of PathFind_EscalateStrategy are at
\* least a full run of the stuck counter apart.
C5_NoRetriggerWhileStuck ==
    navGhost.escalationGap # -1 => navGhost.escalationGap >= 90

\* C9 (as the claim states it): a step of the running engine (a tick or a hotkey)
\* changes current_strategy only along an edge of the escalation cycle, and
\* strategy_failures only by +1 on the edge back to DIRECT.
C9_OnlyCycleEdges ==
    navTrace.op # "AutoNav_Init" =>
        /\ navTrace.strategyAfter # navTrace.strategyBefore =>
               \E i \in 1 .. 6 :
                   CycleEdge(i, navTrace.strategyBefore, navTrace.strategyAfter)
        /\ navTrace.failuresAfter # navTrace.failuresBefore =>
               /\ navTrace.failuresAfter = navTrace.failuresBefore + 1
               /\ navTrace.strategyBefore = NAV_STRATEGY_WIDE_AROUND_RIGHT
               /\ navTrace.strategyAfter = NAV_STRATEGY_DIRECT

\* C9 (amended): AutoNav_Init returns current_strategy to DIRECT and
\* strategy_failures to 0; within any other step current_strategy first stays or
\* moves along one edge of the escalation cycle, then stays or is reset from
\* BACKTRACK to DIRECT by the backtrack timer, and strategy_failures grows by one
\* exactly when the first move is the edge from WIDE_AROUND_RIGHT to DIRECT, and is
\* otherwise unchanged.
C9_CycleEdgeThenBacktrackReset ==
    /\ IF navTrace.op = "AutoNav_Init"
       THEN /\ navTrace.strategyAfter = NAV_STRATEGY_DIRECT
            /\ navTrace.failuresAfter = 0
       ELSE /\ \/ navTrace.strategyEscalated = navTrace.strategyBefore
               \/ \E i \in 1 .. 6 :
                      CycleEdge(i, navTrace.strategyBefore, navTrace.strategyEscalated)
            /\ \/ navTrace.strategyAfter = navTrace.strategyEscalated
               \/ /\ navTrace.strategyEscalated = NAV_STRATEGY_BACKTRACK
                  /\ navTrace.strategyAfter = NAV_STRATEGY_DIRECT
            /\ navTrace.failuresAfter =
                   navTrace.failuresBefore
                     + (IF /\ navTrace.strategyBefore = NAV_STRATEGY_WIDE_AROUND_RIGHT
                           /\ navTrace.strategyEscalated = NAV_STRATEGY_DIRECT
                        THEN 1 ELSE 0)
    /\ AutoNavState.current_strategy = navTrace.strategyAfter
    /\ AutoNavState.strategy_failures = navTrace.failuresAfter

\* The backtrack timer has just reset the strategy from BACKTRACK to DIRECT.
C9_Witness ==
    /\ navTrace.strategyBefore = NAV_STRATEGY_BACKTRACK
    /\ navTrace.strategyEscalated = NAV_STRATEGY_BACKTRACK
    /\ navTrace.strategyAfter = NAV_STRATEGY_DIRECT

(***************************************************************************)
(* Claims about arrival and cancellation                                   *)
(***************************************************************************)
\* C6: since navigation was last switched on, exactly one arrival cue has been
\* spoken if the target distance has fallen below ARRIVAL_DISTANCE and none if it
\* has not; on the tick that first sees it below, target_reached is set and
\* auto_move is off.
C6_ArrivalCueOncePerArrival ==
    /\ navGhost.arrivalCues = navGhost.crossings
    /\ navGhost.crossed =>
           (AutoNavState.target_reached = 1 /\ AutoNavState.auto_move = 0)

\* C7: on the first call of AutoNav_Update after AutoNav_Toggle cleared the enabled
\* flag, the forward, strafe and turn outputs are zero.
C7_OutputsZeroAfterCancel ==
    navGhost.sinceCancel = 1 =>
        /\ playerStatus.Mvt_MotionIncrement = 0
        /\ playerStatus.Mvt_SideStepIncrement = 0
        /\ playerStatus.EulerY = 0

(***************************************************************************)
(* Claims about the obstruction alerts                                     *)
(***************************************************************************)
\* C11: with d the height difference between the player and the hit point,
\* AnalyzeObstruction gives jumpable for |d| < 450, clearable and not jumpable for
\* 450 <= |d| < 1200, and neither for |d| >= 1200.
C11_HeightClassification ==
    call.fn = "AnalyzeObstruction" =>
        LET d == Abs(call.playerY - call.hitY)
        IN  /\ d < MAXIMUM_STEP_HEIGHT => call.result.isJumpable = 1
            /\ (d >= MAXIMUM_STEP_HEIGHT /\ d < JUMP_CLEARANCE_HEIGHT) =>
                   (call.result.isClearable = 1 /\ call.result.isJumpable = 0)
            /\ d >= JUMP_CLEARANCE_HEIGHT =>
                   (call.result.isJumpable = 0 /\ call.result.isClearable = 0)

\* The automatic alerts the last step spoke.
AutoAlerts == { i \in 1 .. Len(emitted) : AlertTypeOf(emitted[i].text) # "" }

\* C12: an automatic forward alert is spoken only on a check that is at least the
\* third in a row to see that alert type close ahead, and only if
\* Announcement_IsAllowed(HIGH) held when it was spoken.
C12_AlertOnlyAfterThreeChecksAndAllowed ==
    \A i \in AutoAlerts :
        /\ Len(obsGhost.seen) = AUTO_ALERT_DEBOUNCE
        /\ \A k \in 1 .. AUTO_ALERT_DEBOUNCE :
               obsGhost.seen[k] = AlertTypeOf(emitted[i].text)
        /\ Announcement_IsAllowed(ANNOUNCE_PRIORITY_HIGH, now, emitted[i].clock)

\* "Wall ahead." has just been spoken although a CRITICAL event had fired before.
C12_Witness ==
    /\ \E i \in AutoAlerts : emitted[i].text = "Wall ahead."
    /\ ANNOUNCE_PRIORITY_CRITICAL \in everFired

\* C13 (as the claim states it): an automatic forward alert is never spoken less
\* than 3 seconds after the last alert of its type.
C13_OncePerThreeSeconds ==
    obsGhost.gap # -1 => obsGhost.gap >= AUTO_ALERT_REPEAT_MS

\* C13 (amended): an automatic forward alert is spoken 3 seconds or less after the
\* last alert of its type only if an alert of another type was spoken in between.
C13_OncePerThreeSecondsUnlessOtherBetween ==
    (obsGhost.gap # -1 /\ obsGhost.gap <= AUTO_ALERT_REPEAT_MS) => obsGhost.otherBetween

\* An alert has just been repeated, more than 3 seconds after the last of its type
\* and with no other alert in between.
C13_Witness ==
    /\ obsGhost.gap > AUTO_ALERT_REPEAT_MS
    /\ ~obsGhost.otherBetween

(***************************************************************************)
(* Claims about the position history                                       *)
(***************************************************************************)
\* C10: history_count never exceeds NAV_POSITION_HISTORY_SIZE and history_index
\* stays in 0 .. 29; the count is the number of insertions up to 30, the index is
\* that number modulo 30, and the buffer holds the newest records, the newest just
\* behind the index, so that past 30 insertions each one overwrites the oldest.
C10_RingBufferKeepsNewest ==
    LET n == Len(navGhost.inserted)
        count == AutoNavState.history_count
        index == AutoNavState.history_index
    IN  /\ count <= NAV_POSITION_HISTORY_SIZE
        /\ index \in 0 .. (NAV_POSITION_HISTORY_SIZE - 1)
        /\ count = IF n < NAV_POSITION_HISTORY_SIZE THEN n ELSE NAV_POSITION_HISTORY_SIZE
        /\ index = n % NAV_POSITION_HISTORY_SIZE
        /\ \A k \in 1 .. count :
               AutoNavState.position_history[
                   (index - k + NAV_POSITION_HISTORY_SIZE) % NAV_POSITION_HISTORY_SIZE]
                   = navGhost.inserted[n - k + 1]

\* The 31st insertion has overwritten slot 0.
C10_Witness ==
    /\ Len(navGhost.inserted) = NAV_POSITION_HISTORY_SIZE + 1
    /\ AutoNavState.history_count = NAV_POSITION_HISTORY_SIZE
    /\ AutoNavState.history_index = 1
    /\ AutoNavState.position_history[0] = navGhost.inserted[NAV_POSITION_HISTORY_SIZE + 1]

(***************************************************************************)
(* Claims about the tone channels                                          *)
(***************************************************************************)
\* C16: on every tone channel (radar, pitch indicator, navigation guidance) a
\* play request made while the channel is sounding is dropped: no source is ever
\* rewound and restarted while it is playing.
C16_DropOnBusy ==
    \A ch \in ToneChannels : ~toneState[ch].cut

\* C18: for every offset a and vertical ratio v of the grid the navigation
\* tone's stereo position does not decrease with a, its pitch is no higher than
\* the pitch at a = 0 for the same v, and its pitch is within 0.5 .. 2.0; the
\* radar tone's pitch is within 0.4 .. 2.5.
C18_ToneShape ==
    /\ call.fn = "NavTone_PlayDirectional" =>
           /\ call.result.state = AL_PLAYING
           /\ \A a \in Offsets :
                  /\ a <= call.angleOffset => NavTonePosX(a) <= call.result.x
                  /\ a >= call.angleOffset => NavTonePosX(a) >= call.result.x
           /\ call.result.pitch <= NavTonePitch(0, call.verticalRatio)
           /\ call.result.pitch >= 500
           /\ call.result.pitch <= 2000
    /\ call.fn = "RadarTone_PlayDirectional" =>
           /\ call.result.state = AL_PLAYING
           /\ call.result.pitch >= 400
           /\ call.result.pitch <= 2500

\* A tone far off target and well above the player: no alignment bonus, and the
\* vertical term alone lifts the pitch.
C18_Witness ==
    /\ call.fn = "NavTone_PlayDirectional"
    /\ call.angleOffset = 50
    /\ call.verticalRatio = 100
    /\ call.result.pitch = 1500
    /\ call.result.x = 100

(***************************************************************************)
(* Claims about the target selection                                       *)
(***************************************************************************)
\* The blocks AutoNav_FindTarget chooses among: those with a position whose type
\* belongs to the category asked for.
Qualifying ==
    { i \in 1..Len(world.entities) :
        /\ world.entities[i].DynPtr
        /\ IsNavTarget(world.entities[i].bhvr, call.nav.target_type) }

DistanceOf(i) ==
    Accessibility_GetDistance(world.x, world.y, world.z, world.entities[i].x,
                              world.entities[i].y, world.entities[i].z)

ScoreOf(i) == TargetScore(world.entities[i].bhvr, DistanceOf(i), playerType)

TickTowardTargetAhead(z) ==
    /\ navTrace'.op = "AutoNav_Update"
    /\ navTrace'.ran
    /\ AutoNavState.auto_move = 1
    /\ AutoNavState.auto_rotate = 1
    /\ AutoNavState.current_strategy = NAV_STRATEGY_DIRECT
    /\ navStatics.smoothedTurnAmount = 0
    /\ navStatics.avoidanceTimer = 0
    /\ world'.x = 0 /\ world'.y = 0 /\ world'.z = 0
    /\ world'.sense.obstacleDistance = 0
    /\ world'.sense.cross100 = 0
    /\ world'.sense.dot100 = 100
    /\ AutoNavState'.target_name # NULL
    /\ AutoNavState'.target_x = 0
    /\ AutoNavState'.target_y = 0
    /\ AutoNavState'.target_z = z

\* C19: with auto_move and auto_rotate on, no obstacle, the player at the origin
\* facing +Z and an interactive target straight ahead at (0,0,2000), the outputs
\* of that tick are forward motion on and a turn rate of about 0.
C19_ForwardOnAt2000 ==
    [][TickTowardTargetAhead(2000) =>
          /\ playerStatus'.Mvt_MotionIncrement = AUTONAV_FORWARD_SPEED
          /\ Abs(playerStatus'.EulerY) <= 1]_vars

\* C19, amended: in that tick the outputs are forward motion off (the motion
\* increments are written as 0, the target being no more than 3000 away) and a
\* turn rate of 0.
C19_ForwardOffAt2000 ==
    [][TickTowardTargetAhead(2000) =>
          /\ navTrace'.wroteMotion
          /\ playerStatus'.Mvt_MotionIncrement = 0
          /\ playerStatus'.Mvt_SideStepIncrement = 0
          /\ playerStatus'.EulerY = 0]_vars

\* The tick after auto-movement was switched on 2000 from the switch: the motion
\* outputs were written as 0, the arrival was found and auto-movement put off.
C19_Witness ==
    /\ navTrace.op = "AutoNav_Update"
    /\ navTrace.ran
    /\ navTrace.wroteMotion
    /\ navTrace.arrived
    /\ world = WorldNear
    /\ AutoNavState.target_z = 2000
    /\ AutoNavState.auto_rotate = 1
    /\ AutoNavState.auto_move = 0
    /\ playerStatus.Mvt_MotionIncrement = 0
    /\ playerStatus.EulerY = 0

(***************************************************************************)
(* Claims about a missing player                                           *)
(***************************************************************************)
\* C20: with no player, AutoNav_Update and Obstruction_Update return without
\* writing a movement output, without a cue or a tone and without changing the
\* navigation state, its strategy and history, or the obstruction state;
\* AutoNav_FindTarget clears the target name and changes nothing else.
C20_MissingPlayerSkipsTheTick ==
    [][~world.present =>
          /\ navGhost'.frames # navGhost.frames =>
                 /\ navTrace'.op = "AutoNav_Update"
                 /\ ~navTrace'.ran
                 /\ navTrace'.cues = <<>>
                 /\ UNCHANGED <<AutoNavState, navStatics, playerStatus, toneState,
                                obstructionVars, emitted, suppressed>>
          /\ (call' # call /\ call'.fn = "Obstruction_Update") =>
                 UNCHANGED <<obstructionVars, AutoNavState, navStatics, playerStatus,
                             toneState, emitted, suppressed>>
          /\ (call' # call /\ call'.fn = "AutoNav_FindTarget") =>
                 /\ AutoNavState' = [AutoNavState EXCEPT !.target_name = NULL]
                 /\ UNCHANGED <<obstructionVars, navStatics, playerStatus, toneState,
                                emitted, suppressed>>]_vars

\* The player was lost while auto-movement was driving forward; a frame has been
\* run since, the outputs are as they were left, and a target search has
\* cleared the name.
C20_Witness ==
    /\ ~world.present
    /\ AutoNavState.enabled = 1
    /\ AutoNavState.auto_move = 1
    /\ navTrace.op = "AutoNav_Update"
    /\ ~navTrace.ran
    /\ navGhost.frames > 25
    /\ playerStatus.Mvt_MotionIncrement = AUTONAV_FORWARD_SPEED
    /\ call.fn = "AutoNav_FindTarget"
    /\ AutoNavState.target_name = NULL
    /\ obstructionStatics.frameCounter > 0

(***************************************************************************)
(* Claims about the backends                                               *)
(***************************************************************************)
ToneInitialized(ch) ==
    IF ch = "g_RadarToneSource" THEN toneState.g_RadarToneInitialized
    ELSE IF ch = "g_PitchToneSource" THEN toneState.g_PitchToneInitialized
    ELSE toneState.g_NavToneInitialized

\* C21: a tone channel whose source cannot be created never sounds, and a play
\* request changes its own channel only; with Tolk failing to load,
\* Accessibility_Init still returns 1 and marks the engine initialised, speech is
\* put off (tts_enabled cleared, nothing reaches Tolk), and a frame of an enabled
\* navigation still runs and writes what it writes with every backend up.
C21_BackendFailuresIsolated ==
    /\ [](/\ \A ch \in ToneChannels :
                ~backend[ch] => toneState[ch].state = AL_INITIAL /\ ToneInitialized(ch) = 0
          /\ backend.g_AccessibilityInitialized = 1 =>
                /\ call.fn = "Accessibility_Init" => call.result = 1
                /\ ~backend.tolkLoads =>
                       /\ AccessibilitySettings.tts_enabled = 0
                       /\ backend.g_TolkInitialized = 0
                       /\ TTS_SpeakInternal(navTrace.cues) = <<>>)
    /\ [][/\ Cardinality({ ch \in ToneChannels : toneState'[ch] # toneState[ch] }) <= 1
          /\ (/\ navGhost'.frames # navGhost.frames
              /\ backend.g_AccessibilityInitialized = 1
              /\ AccessibilitySettings.enabled
              /\ AutoNavState.enabled = 1) =>
                 LET r == AutoNav_UpdateBody(NavInput(world'), AutoNavState, navStatics,
                                             playerStatus, g_ObstructionState, playerType,
                                             TRUE, now)
                 IN  /\ navTrace'.ran
                     /\ AutoNavState' = r.nav
                     /\ navStatics' = r.st
                     /\ playerStatus' = r.ps]_vars

\* Tolk did not load and the navigation tone's source cannot be created: the
\* radar tone sounds, and the frame that asked for the navigation tone drove the
\* player forward all the same.
C21_Witness ==
    /\ backend.g_AccessibilityInitialized = 1
    /\ ~backend.tolkLoads
    /\ AccessibilitySettings.tts_enabled = 0
    /\ ~backend.g_NavToneSource
    /\ navTrace.op = "AutoNav_Update"
    /\ navTrace.tone
    /\ toneState.g_NavToneSource.state = AL_INITIAL
    /\ toneState.g_RadarToneSource.state = AL_PLAYING
    /\ playerStatus.Mvt_MotionIncrement = AUTONAV_FORWARD_SPEED

(***************************************************************************)
(* Claims about the engine reset                                           *)
(***************************************************************************)
\* C22: no navigation state persists across AutoNav_Init: right after it, the
\* navigation state and the locals AutoNav_Update keeps between ticks (avoidance
\* state and timer, stuck counter, backtrack counter, smoothed turn rate, cadence
\* counters) are those of an engine whose first call is AutoNav_Init.
C22_NothingPersistsAcrossInit ==
    navTrace.op = "AutoNav_Init" =>
        /\ AutoNavState = AutoNav_Init(InitAutoNavState).nav
        /\ navStatics = InitNavStatics

\* What AutoNav_Init does reset: the fields of AutoNavState.
C22_InitResetsAutoNavState ==
    navTrace.op = "AutoNav_Init" => AutoNavState = AutoNav_Init(InitAutoNavState).nav

(***************************************************************************)
(* Claims about giving up                                                  *)
(***************************************************************************)
CannotReachSpoken ==
    \E k \in 1 .. Len(navTrace.cues) :
        navTrace.cues[k].text = "Cannot reach target. Try manual navigation."

\* C23: "Cannot reach target" is spoken once per two failed escalation cycles:
\* strategy_failures counts the failed cycles of the run, and the cue is spoken
\* only by a tick that brings the count to a multiple of two, also after the
\* player has switched auto-movement on again and stays stuck.
C23_CannotReachOncePerTwoFailures ==
    CannotReachSpoken => navTrace.failuresAfter % 2 = 0

(***************************************************************************)
(* Claims about the arbiter and the navigation                             *)
(***************************************************************************)
\* C24: a call of AutoNav_Update speaks a cue or asks for the guidance tone only
\* at a time at which Announcement_IsAllowed passes for some tier below
\* CRITICAL; none is made within 600 ms of a CRITICAL announcement.
C24_EmissionsOnlyWhenAllowed ==
    [][(/\ navGhost'.frames # navGhost.frames
        /\ navTrace'.ran
        /\ navTrace'.cues # <<>> \/ navTrace'.tone)
       => \E priority \in {ANNOUNCE_PRIORITY_HIGH, ANNOUNCE_PRIORITY_NORMAL,
                            ANNOUNCE_PRIORITY_LOW} :
              Announcement_IsAllowed(priority, now, AnnouncementClock)]_vars

(***************************************************************************)
(* Claims about backtracking                                               *)
(***************************************************************************)
\* C25: a tick that finds current_strategy at BACKTRACK commands the reverse
\* motion (forward -8000, strafe 0) and leaves the strategy at BACKTRACK or resets
\* it to DIRECT, whatever the stuck, oscillation or loop signals are; the backtrack
\* counter never passes 90, so that the reset comes after at most 91 such ticks.
C25_BacktrackReversesThenDirect ==
    /\ (navTrace.op = "AutoNav_Update" /\ navTrace.ran
           /\ navTrace.strategyBefore = NAV_STRATEGY_BACKTRACK) =>
          /\ playerStatus.Mvt_MotionIncrement = AUTONAV_BACKTRACK_SPEED
          /\ playerStatus.Mvt_SideStepIncrement = 0
          /\ navTrace.strategyAfter \in {NAV_STRATEGY_BACKTRACK, NAV_STRATEGY_DIRECT}
    /\ navStatics.backtrackFrames <= BACKTRACK_DURATION_FRAMES

(***************************************************************************)
(* Claims about doors                                                      *)
(***************************************************************************)
\* The ray of the last tick hit a door-category object nearer than 3000.
DoorAhead(sense) ==
    /\ sense.obstacleType \in {"door", "proximity door", "lift door"}
    /\ sense.obstacleDistance > 0
    /\ sense.obstacleDistance < 3000

\* C26: after a tick of the controller with auto-movement on whose ray hit a
\* door-category object at a distance in (0, 3000), the forward and strafe outputs
\* are zero.
C26_NoMotionAtDoor ==
    (/\ navTrace.op = "AutoNav_Update" /\ navTrace.ran
     /\ AutoNavState.auto_move = 1
     /\ DoorAhead(world.rayBefore)) =>
        /\ playerStatus.Mvt_MotionIncrement = 0
        /\ playerStatus.Mvt_SideStepIncrement = 0

DoorCueSpoken(cues) ==
    \E k \in 1 .. Len(cues) : cues[k].text = "%s ahead. Press SPACE to open."

\* The ray hit a door-category object, at whatever distance.
DoorInTheWay(sense) ==
    /\ sense.obstacleType \in {"door", "proximity door", "lift door"}
    /\ sense.obstacleDistance > 0

\* C27: the door cue is spoken once per stop: a tick that follows a tick whose
\* ray hit a door does not speak it, whatever the distance measured to the door
\* was on either tick.
C27_DoorCueOncePerStop ==
    [][(/\ navGhost'.frames = navGhost.frames + 1
        /\ navGhost.frames > 0
        /\ DoorInTheWay(world.rayBefore))
       => ~DoorCueSpoken(navTrace'.cues)]_vars

(***************************************************************************)
(* Claims about avoidance                                                  *)
(***************************************************************************)
\* C28: while an avoidance side (1 left, 2 right) is selected and its timer is
\* running, a tick only counts the timer down by one: the side is kept, or
\* cleared as the timer reaches zero, and is not selected again.
C28_AvoidanceSideHeld ==
    [][(/\ navGhost'.frames = navGhost.frames + 1
        /\ navTrace'.ran
        /\ navStatics.avoidanceState \in {1, 2}
        /\ navStatics.avoidanceTimer > 0)
       => /\ navStatics'.avoidanceTimer = navStatics.avoidanceTimer - 1
          /\ navStatics'.avoidanceState =
                 IF navStatics'.avoidanceTimer = 0 THEN 0 ELSE navStatics.avoidanceState]_vars

(***************************************************************************)
(* Claims about the arrival tick                                           *)
(***************************************************************************)
\* C29: a tick entered with auto-movement on that detects the arrival (the
\* arrival cue is spoken) leaves the forward and strafe outputs at zero, whatever
\* the strategy or the avoidance state.
C29_ArrivalTickWritesZero ==
    [][(/\ navGhost'.frames = navGhost.frames + 1
        /\ AutoNavState.auto_move = 1
        /\ ArrivalCueCount(navTrace'.cues) > 0)
       => /\ playerStatus'.Mvt_MotionIncrement = 0
          /\ playerStatus'.Mvt_SideStepIncrement = 0]_vars

(***************************************************************************)
(* Claims about the progress monitor                                       *)
(***************************************************************************)
MovingAwaySpoken(cues) ==
    \E k \in 1 .. Len(cues) : cues[k].text = "Moving away from target."

\* C30: "Moving away from target." is spoken only against a distance observed at
\* an earlier progress check of the current target, and so never at the first
\* progress check: a check made by one of the first 60 ticks, before which no
\* check has run, does not speak it.
C30_NoMovingAwayAtFirstCheck ==
    [][(/\ navGhost'.frames = navGhost.frames + 1
        /\ navGhost.frames < 60
        /\ navTrace'.progressChecked)
       => ~MovingAwaySpoken(navTrace'.cues)]_vars

(***************************************************************************)
(* Claims about the cadence of the expensive work                          *)
(***************************************************************************)
\* C31: on a tick of AutoNav_Update with the player and the target present the
\* position is sampled exactly as the 10-tick counter fires, the tone requested as
\* the 20-tick counter fires, the targets enumerated as the 30-tick counter fires
\* and the progress looked at as the 60-tick counter fires, and a tick on which
\* none of them fires casts no ray and enumerates no entity.
C31_ExpensiveWorkOnlyOnCounterTicks ==
    (navTrace.op = "AutoNav_Update" /\ navTrace.ran) =>
        /\ navStatics.positionRecordCounter < 10
        /\ navStatics.toneCounter < 20
        /\ navStatics.g_NavToneFrameCounter < 30
        /\ navStatics.progressCheckCounter < 60
        /\ navTrace.sampled <=> navStatics.positionRecordCounter = 0
        /\ navTrace.tone <=> navStatics.toneCounter = 0
        /\ navTrace.refreshed <=> navStatics.g_NavToneFrameCounter = 0
        /\ navTrace.progressChecked <=> navStatics.progressCheckCounter = 0
        /\ ~(navTrace.sampled \/ navTrace.tone \/ navTrace.refreshed
               \/ navTrace.progressChecked) => navTrace.rayCasts = 0

\* The cadence alone: what C31 says of the four counters of AutoNav_Update.
C31_CountersFireOnTheirPeriod ==
    (navTrace.op = "AutoNav_Update" /\ navTrace.ran) =>
        /\ navTrace.sampled <=> navStatics.positionRecordCounter = 0
        /\ navTrace.tone <=> navStatics.toneCounter = 0
        /\ navTrace.refreshed <=> navStatics.g_NavToneFrameCounter = 0
        /\ navTrace.progressChecked <=> navStatics.progressCheckCounter = 0

(***************************************************************************)
(* Auto-jump: a player 4000 from a switch, with the obstruction checks      *)
(* running between the navigation ticks                                     *)
(***************************************************************************)
MaxJumpFrames == 2

InitJump ==
    /\ InitHost
    /\ InitNav(WorldAhead)

\* What the rays return: a step or a low obstacle 1000 ahead, or a wall beyond the
\* jump range.
JumpInputs ==
    [forwardDist : {1000}, playerY : {0}, hitY : {-800, -1400},
     leftDist : SideDistances, rightDist : SideDistances]
        \cup [forwardDist : {6000}, playerY : {0}, hitY : {600},
               leftDist : SideDistances, rightDist : SideDistances]

JumpSense ==
    \E in \in JumpInputs : Obstruction_Update(in)

JumpFrame ==
    /\ navGhost.frames < MaxJumpFrames
    /\ UpdateCalled(TRUE, TRUE)

NextJump ==
    \/ StuckToggle
    \/ KeyToggleMovement
    \/ JumpSense
    \/ JumpFrame

SpecJump == InitJump /\ [][NextJump]_vars

MaxTurnFrames == 40
TurnShiftFrames == {0, 20}

\* cross and dot of the view direction with the direction to the target.
TurnSenses ==
    { [SenseClear EXCEPT !.cross100 = b[1], !.dot100 = b[2]] :
          b \in {<<50, 86>>, <<6, 99>>, <<0, 100>>, <<-50, 86>>} }

InitTurn ==
    /\ InitHost
    /\ InitNav(WorldAhead)

TurnShifts ==
    /\ navGhost.frames \in TurnShiftFrames
    /\ \E sense \in TurnSenses \ {world.sense} :
           world' = [world EXCEPT !.sense = sense]
    /\ UNCHANGED <<arbVars, playerStateVars, AccessibilitySettings, obstructionVars,
                   emitted, suppressed, AutoNavState, navStatics, playerStatus, navTrace,
                   navGhost, call, toneState, backend>>

TurnToggleRotation ==
    /\ navGhost.presses = 1
    /\ KeyToggleRotation

TurnFrame ==
    /\ navGhost.presses = 2
    /\ navGhost.frames < MaxTurnFrames
    /\ UpdateCalled(TRUE, TRUE)

NextTurn ==
    \/ StuckToggle
    \/ TurnToggleRotation
    \/ TurnShifts
    \/ TurnFrame

SpecTurn == InitTurn /\ [][NextTurn]_vars

\* C33: on every tick with auto_rotate on, a turn rate that differs from the turn
\* bias moves strictly closer to it.
C33_TurnRateMovesStrictlyCloser ==
    (navTrace.op = "AutoNav_Update" /\ navTrace.wroteTurn
         /\ navTrace.turnBefore # navTrace.turnBias) =>
        Abs(navTrace.turnBias - playerStatus.EulerY)
            < Abs(navTrace.turnBias - navTrace.turnBefore)

\* The smoothing step never moves the turn rate away from the bias or past it.
C33_TurnRateNeverMovesAway ==
    (navTrace.op = "AutoNav_Update" /\ navTrace.wroteTurn) =>
        /\ Abs(navTrace.turnBias - playerStatus.EulerY)
               <= Abs(navTrace.turnBias - navTrace.turnBefore)
        /\ (navTrace.turnBias - playerStatus.EulerY)
               * (navTrace.turnBias - navTrace.turnBefore) >= 0
        /\ Abs(navTrace.turnBias - navTrace.turnBefore) > 6 =>
               playerStatus.EulerY # navTrace.turnBefore


(***************************************************************************)
(* Auto-movement switched off at any moment of a run that is held in place  *)
(***************************************************************************)
MaxBackOffTime == 4400

InitBackOff ==
    /\ InitHost
    /\ InitNav(WorldStill)

\* Auto-movement is switched on before the first frame and off again whenever the
\* user chooses.
BackOffToggleMovement ==
    /\ navGhost.presses \in {1, 2}
    /\ KeyToggleMovement

BackOffTick ==
    /\ navGhost.presses >= 2
    /\ now < MaxBackOffTime
    /\ UpdateCalled(TRUE, FALSE)

NextBackOff ==
    \/ StuckToggle
    \/ BackOffToggleMovement
    \/ BackOffTick

SpecBackOff == InitBackOff /\ [][NextBackOff]_vars

\* A step that is a call of AutoNav_Update.
UpdateStep == navTrace'.op = "AutoNav_Update" /\ navGhost' # navGhost

\* C34: a tick of AutoNav_Update that writes Mvt_MotionIncrement or
\* Mvt_SideStepIncrement is a tick entered with auto_move on; a tick entered with
\* auto_move off leaves both as they were.
C34_MotionWrittenOnlyWithAutoMove ==
    [][UpdateStep =>
         /\ navTrace'.wroteMotion => AutoNavState.auto_move # 0
         /\ AutoNavState.auto_move = 0 =>
                /\ playerStatus'.Mvt_MotionIncrement = playerStatus.Mvt_MotionIncrement
                /\ playerStatus'.Mvt_SideStepIncrement = playerStatus.Mvt_SideStepIncrement]_vars

\* Outside the BACKTRACK strategy the movement outputs are written only with
\* auto_move on.
C34_MotionWrittenOnlyWithAutoMoveOrBacktrack ==
    [][UpdateStep =>
         /\ navTrace'.wroteMotion =>
                \/ AutoNavState.auto_move # 0
                \/ navTrace'.strategyEscalated = NAV_STRATEGY_BACKTRACK
         /\ (AutoNavState.auto_move = 0
                 /\ navTrace'.strategyEscalated # NAV_STRATEGY_BACKTRACK) =>
                /\ playerStatus'.Mvt_MotionIncrement = playerStatus.Mvt_MotionIncrement
                /\ playerStatus'.Mvt_SideStepIncrement = playerStatus.Mvt_SideStepIncrement]_vars

\* No announcement has been recorded: the three timestamps hold their initial value.
NothingRecorded ==
    /\ everFired = {}
    /\ g_LastCriticalAnnouncementTime = 0
    /\ g_LastHighAnnouncementTime = 0
    /\ g_LastNormalAnnouncementTime = 0

\* C35: as long as no announcement has been recorded, Announcement_IsAllowed
\* returns true for every tier, whatever the clock reads.
C35_AllowedBeforeFirstRecord ==
    NothingRecorded =>
        \A p \in Priorities : Announcement_IsAllowed(p, now, AnnouncementClock)

\* From 600 ms on the clock, every tier is allowed as long as nothing has been
\* recorded.
C35_AllowedBeforeFirstRecordFrom600 ==
    (NothingRecorded /\ now >= COOLDOWN_AFTER_CRITICAL_MS) =>
        \A p \in Priorities : Announcement_IsAllowed(p, now, AnnouncementClock)

\* C36: in every step other than a call of AutoNav_Init, arrival_announced and
\* target_reached stay set once set; a step that starts with arrival_announced set
\* speaks no arrival cue, and a tick that starts with target_reached set makes no
\* call of PathFind_EscalateStrategy.
C36_ArrivalFlagsStayUntilInit ==
    [][navTrace'.op # "AutoNav_Init" =>
         /\ AutoNavState.arrival_announced = 1 =>
                /\ AutoNavState'.arrival_announced = 1
                /\ navTrace' # navTrace => ArrivalCueCount(navTrace'.cues) = 0
         /\ AutoNavState.target_reached = 1 =>
                /\ AutoNavState'.target_reached = 1
                /\ UpdateStep => navTrace'.escalations = <<>>]_vars

\* After an arrival the navigation was switched off and on again, and the tick just
\* made saw the target of the new navigation nearer than the arrival distance and
\* spoke no arrival cue.
C36_Witness ==
    /\ navTrace.op = "AutoNav_Update" /\ navTrace.ran /\ navTrace.arrived
    /\ navGhost.presses = 3 /\ navGhost.frames > 100
    /\ AutoNavState.enabled = 1
    /\ AutoNavState.arrival_announced = 1 /\ AutoNavState.target_reached = 1
    /\ ArrivalCueCount(navTrace.cues) = 0
    /\ navTrace.escalations = <<>>

(***************************************************************************)
(* The position history of a player who stands still anywhere in the level  *)
(***************************************************************************)
\* Coordinates of the standing player: near the origin, 60 m from it, and at the
\* ends of the int range.
FarCoords == {0, 18000, -18000, 60000, -60000, 2147483647, -2147483647 - 1}

InitSame ==
    /\ InitHost
    /\ \E x \in FarCoords, z \in FarCoords :
           InitNav([WorldStill EXCEPT !.x = x, !.z = z])

SpecSame == InitSame /\ [][NextHist]_vars

\* The six newest samples of the history are the same position.
SixIdenticalSamples(nav) ==
    /\ nav.history_count >= 6
    /\ \A i \in 1 .. 5 :
           /\ nav.position_history[HistorySlot(nav, i)].x
                  = nav.position_history[HistorySlot(nav, 0)].x
           /\ nav.position_history[HistorySlot(nav, i)].z
                  = nav.position_history[HistorySlot(nav, 0)].z

\* C37: a history whose six newest samples are identical is never classified as
\* oscillating, wherever in the int range the position lies.
C37_IdenticalSamplesNeverOscillate ==
    SixIdenticalSamples(AutoNavState) => PathFind_DetectOscillation(AutoNavState) = 0

\* For a position whose coordinates are within 18918 of the origin (6 * x * x
\* fits an int), six identical samples are not classified as oscillating.
C37_IdenticalSamplesNearOriginNeverOscillate ==
    (/\ SixIdenticalSamples(AutoNavState)
     /\ world.x >= -18918 /\ world.x <= 18918
     /\ world.z >= -18918 /\ world.z <= 18918) =>
        PathFind_DetectOscillation(AutoNavState) = 0

(***************************************************************************)
(* The engine shut down and started again while the tones are in use        *)
(***************************************************************************)
MaxShutdownFrames == 22

\* RadarTone_Shutdown / PitchTone_Shutdown: the source is stopped and deleted and
\* the channel is marked uninitialised.
RadarTone_Shutdown(tone) ==
    [tone EXCEPT !.g_RadarToneSource = ToneSource(AL_INITIAL, 1000, 100, 0),
                 !.g_RadarToneInitialized = 0]

PitchTone_Shutdown(tone) ==
    [tone EXCEPT !.g_PitchToneSource = ToneSource(AL_INITIAL, 1000, 100, 0),
                 !.g_PitchToneInitialized = 0]

\* Accessibility_Shutdown: TTS_Stop, TTS_ShutdownTolk, RadarTone_Shutdown,
\* PitchTone_Shutdown, g_AccessibilityInitialized = 0.
Accessibility_Shutdown ==
    /\ backend.g_AccessibilityInitialized = 1
    /\ backend' = [backend EXCEPT !.g_TolkInitialized = 0,
                                  !.g_AccessibilityInitialized = 0]
    /\ toneState' = PitchTone_Shutdown(RadarTone_Shutdown(toneState))
    /\ call' = [fn |-> "Accessibility_Shutdown"]
    /\ UNCHANGED <<arbVars, playerStateVars, AccessibilitySettings, obstructionVars,
                   emitted, suppressed, navVars>>

ShutdownFrame ==
    /\ navGhost.frames < MaxShutdownFrames
    /\ UpdateCalled(TRUE, TRUE)

InitShutdown ==
    /\ InitHost
    /\ InitNav(WorldAhead)

NextShutdown ==
    \/ Accessibility_Init
    \/ Accessibility_Shutdown
    \/ StuckToggle
    \/ ShutdownFrame
    \/ BackendRadarTone
    \/ BackendPitchTone
    \/ ToneEnds

SpecShutdown == InitShutdown /\ [][NextShutdown]_vars

\* C38: while the engine is shut down, no tone channel is marked initialised and
\* none is sounding.
C38_ShutdownClearsEveryToneChannel ==
    backend.g_AccessibilityInitialized = 0 =>
        \A ch \in ToneChannels :
            ToneInitialized(ch) = 0 /\ toneState[ch].state # AL_PLAYING

\* While the engine is shut down, the radar and the pitch channel are not marked
\* initialised and do not sound.
C38_ShutdownClearsRadarAndPitch ==
    backend.g_AccessibilityInitialized = 0 =>
        \A ch \in {"g_RadarToneSource", "g_PitchToneSource"} :
            ToneInitialized(ch) = 0 /\ toneState[ch].state # AL_PLAYING

(***************************************************************************)
(* The master switch: F1 pressed between the frames of a navigation         *)
(***************************************************************************)
MaxF1Frames == 6

\* TTS_SpeakPriority: what is handed to Tolk_Output with the settings st.
TTS_SpeakPriority(text, st) ==
    IF ~st.enabled THEN <<>>
    ELSE IF backend.g_TolkInitialized = 0 \/ st.tts_enabled = 0 THEN <<>>
    ELSE <<text>>

\* Accessibility_ProcessInput with DebouncedKeyboardInput[KEY_F1] set.
ProcessInput_F1 ==
    \E st \in {[AccessibilitySettings EXCEPT !.enabled = ~@]} :
        /\ AccessibilitySettings' = st
        /\ call' = [fn |-> "Accessibility_ProcessInput",
                    key |-> "KEY_F1",
                    spoken |-> TTS_SpeakPriority(IF st.enabled THEN "Accessibility enabled"
                                                 ELSE "Accessibility disabled", st),
                    was |-> AccessibilitySettings.enabled]
        /\ UNCHANGED <<arbVars, playerStateVars, obstructionVars, emitted, suppressed,
                       navVars, toneState, backend>>

F1Frame ==
    /\ navGhost.frames < MaxF1Frames
    /\ UpdateCalled(TRUE, TRUE)

InitF1 ==
    /\ InitHost
    /\ InitNav(WorldAhead)

NextF1 ==
    \/ ProcessInput_F1
    \/ StuckToggle
    \/ F1Frame

SpecF1 == InitF1 /\ [][NextF1]_vars

\* C39: an F1 press has toggled the enabled flag, and the text naming the new state
\* has been handed to the speech backend.
C39_F1SpeaksTheNewState ==
    call.fn = "Accessibility_ProcessInput" =>
        /\ call.was = ~AccessibilitySettings.enabled
        /\ call.spoken = <<IF AccessibilitySettings.enabled THEN "Accessibility enabled"
                           ELSE "Accessibility disabled">>

\* An F1 press has toggled the enabled flag; "Accessibility enabled" has been
\* handed to the speech backend if the flag is now set, and nothing if not.
C39_F1SpeaksOnlyWhenTurningOn ==
    call.fn = "Accessibility_ProcessInput" =>
        /\ call.was = ~AccessibilitySettings.enabled
        /\ call.spoken = IF AccessibilitySettings.enabled THEN <<"Accessibility enabled">>
                         ELSE <<>>

\* The slots of position_history that PathFind_DetectOscillation reads: those of
\* its loop (i = 0..5); oldest and newest are the slots of i = 5 and i = 0.
OscillationReads(nav) ==
    IF nav.history_count < 6 THEN {}
    ELSE { HistorySlot(nav, i) : i \in 0 .. 5 }

\* The slots that PathFind_DetectLoop reads: the newest one and those of its loop
\* up to the first hit.
LoopReads(nav) ==
    IF nav.history_count < 18 THEN {}
    ELSE LET last == IF PathFind_DetectLoop(nav).found = 1
                     THEN PathFind_DetectLoop(nav).loopSize
                     ELSE nav.history_count - 1
         IN  { HistorySlot(nav, i) : i \in {0} \cup (18 .. last) }

\* The slots written by the calls of PathFind_RecordPosition made so far.
WrittenSlots ==
    { (k - 1) % NAV_POSITION_HISTORY_SIZE : k \in 1 .. Len(navGhost.inserted) }

\* C40: after any sequence of PathFind_RecordPosition calls, the slots read by
\* PathFind_DetectOscillation and PathFind_DetectLoop are slots 0..29 that have
\* been written, and with fewer than 6 (18) samples recorded the functions read
\* nothing and return 0.
C40_DetectorsReadOnlyWrittenSlots ==
    /\ OscillationReads(AutoNavState) \subseteq
           (WrittenSlots \cap (0 .. (NAV_POSITION_HISTORY_SIZE - 1)))
    /\ LoopReads(AutoNavState) \subseteq
           (WrittenSlots \cap (0 .. (NAV_POSITION_HISTORY_SIZE - 1)))
    /\ Len(navGhost.inserted) < 6 =>
           /\ OscillationReads(AutoNavState) = {}
           /\ PathFind_DetectOscillation(AutoNavState) = 0
    /\ Len(navGhost.inserted) < 18 =>
           /\ LoopReads(AutoNavState) = {}
           /\ PathFind_DetectLoop(AutoNavState).found = 0

\* The history has wrapped round and the loop detector has gone through all the
\* samples from 18 back to the oldest.
C40_Witness ==
    /\ Len(navGhost.inserted) > NAV_POSITION_HISTORY_SIZE
    /\ AutoNavState.history_count = NAV_POSITION_HISTORY_SIZE
    /\ AutoNavState.history_index \in 1 .. 5
    /\ PathFind_DetectLoop(AutoNavState).found = 0
    /\ Cardinality(LoopReads(AutoNavState)) = 13
    /\ Cardinality(OscillationReads(AutoNavState)) = 6


====
